---- MODULE Spec2Model ----
(***************************************************************************)
(* Model of streamlit_app.py (KEI reference checker): the URL probe        *)
(* (check_url_status), the page-meta fetch, the entry grammar (separator), *)
(* the two oracle clients (GPTcheck, gpt_url_match_single), the batch      *)
(* (process_entries) and the session handlers of main().                   *)
(*                                                                         *)
(* Text.  A Python str is a sequence of glyphs; a glyph is a one-character *)
(* string, and a Hangul syllable or a typographic quote is written by its  *)
(* romanised name (the module's strings are ASCII):                        *)
(*   "jeong","sang" = 정상      "o","ryu" = 오류                           *)
(*   "hwak","in","bul","ga" = 확인불가   "hwak","in","pil","yo" = 확인필요 *)
(*   "il","chi" = 일치    "bul","il","chi" = 불일치                        *)
(*   "geom","saek","il" = 검색일    "ldq" = “   "rdq" = ”   "dq" = "       *)
(* A DataFrame cell is the text it shows: an int status code is its        *)
(* decimal digits, the empty cell is <<>>.                                 *)
(*                                                                         *)
(* Column names (the source's Korean names, in ASCII):                     *)
(*   final_URL_status = 최종_URL_상태     final_URL_memo = 최종_URL_메모   *)
(*   URL_fixed = URL_수정안               author = 작성기관_작성자         *)
(*   title = 제목                         URL_report = URL_보고서기준      *)
(*   original = 원문                                                       *)
(*   format_check_rule = 참고문헌_작성양식_체크(규칙기반)                  *)
(*   format_check_GPT  = 참고문헌_작성양식_체크(GPT기반)                   *)
(*   URL_content_match_GPT = URL_내용일치여부(GPT)                         *)
(*   page_title/page_og_title/page_description = 페이지_...                *)
(*   file_flag = 파일_여부                file_ext = 파일_확장자           *)
(*   URL_status = URL_상태   URL_memo = URL_메모                           *)
(*   URL_status_code = URL_상태코드       URL_final_URL = URL_최종URL      *)
(*   URL_manual_result = URL_수동검증_결과   manual_memo = 수동검증_메모   *)
(***************************************************************************)
EXTENDS Naturals, Sequences, FiniteSets, TLC

VARIABLES
  call,       \* one call of a function under study: fn, args, pc, ret
  result_df,  \* st.session_state["result_df"]: None or the DataFrame
  pe,         \* history: the last process_entries call of the run handler
  run_df,     \* history: the DataFrame as the last run stored it
  last        \* history: the handler that ran last, the rows it judged, and
              \* whether a run found review work in the session (over)

vars == <<call, result_df, pe, run_df, last>>

(***************************************************************************)
(* Python str operations on glyph sequences                                *)
(***************************************************************************)
Min(a, b) == IF a < b THEN a ELSE b

IsSpace(c) == c \in {" ", "\t"}

IsDigit(c) == c \in {"0", "1", "2", "3", "4", "5", "6", "7", "8", "9"}

\* re's \w: letters (Hangul syllables included), digits and "_".
IsWordChar(c) ==
  c \notin {" ", "\t", ".", ",", ":", "/", "(", ")", "=", "-", "+", "?", "&",
            "ldq", "rdq", "dq"}

RECURSIVE LStrip(_)
LStrip(s) == IF s # <<>> /\ IsSpace(Head(s)) THEN LStrip(Tail(s)) ELSE s

RECURSIVE RStrip(_)
RStrip(s) ==
  IF s # <<>> /\ IsSpace(s[Len(s)]) THEN RStrip(SubSeq(s, 1, Len(s) - 1)) ELSE s

\* str.strip()
Strip(s) == RStrip(LStrip(s))

\* str.startswith(p)
StartsWith(s, p) == Len(s) >= Len(p) /\ SubSeq(s, 1, Len(p)) = p

\* s[i:].startswith(p), i a 1-based position
StartsAt(s, i, p) == i + Len(p) - 1 <= Len(s) /\ SubSeq(s, i, i + Len(p) - 1) = p

\* p in s
Contains(s, p) == \E i \in 1..(Len(s) + 1) : StartsAt(s, i, p)

\* s[:n]
Take(s, n) == SubSeq(s, 1, Min(n, Len(s)))

\* s.replace(p, "") for a non-empty p: every occurrence, left to right
RECURSIVE Remove(_, _)
Remove(s, p) ==
  IF s = <<>> THEN <<>>
  ELSE IF StartsWith(s, p) THEN Remove(SubSeq(s, Len(p) + 1, Len(s)), p)
  ELSE <<Head(s)>> \o Remove(Tail(s), p)

LowerGlyph(c) ==
  CASE c = "P" -> "p" [] c = "D" -> "d" [] c = "F" -> "f" [] c = "H" -> "h"
    [] c = "T" -> "t" [] c = "S" -> "s" [] c = "X" -> "x" [] c = "L" -> "l"
    [] c = "U" -> "u" [] c = "R" -> "r" [] c = "A" -> "a" [] c = "C" -> "c"
    [] c = "O" -> "o" [] c = "V" -> "v" [] c = "E" -> "e"
    [] OTHER -> c

\* The text with its capitals kept.
LowerKept(s) == s

\* str.lower()
Lower(s) == [i \in 1..Len(s) |-> LowerGlyph(s[i])]

Digit(d) == <<"0", "1", "2", "3", "4", "5", "6", "7", "8", "9">>[d + 1]

\* str(n) of a non-negative int
RECURSIVE Str(_)
Str(n) == IF n < 10 THEN <<Digit(n)>> ELSE Str(n \div 10) \o <<Digit(n % 10)>>

RECURSIVE Repeat(_, _)
Repeat(c, n) == IF n = 0 THEN <<>> ELSE <<c>> \o Repeat(c, n - 1)

Range(s) == {s[i] : i \in 1..Len(s)}

(***************************************************************************)
(* Values: a Python value of unknown type, statuses, memos                 *)
(***************************************************************************)
PyStr(s) == [t |-> "str", v |-> s]
PyNone == [t |-> "NoneType", v |-> <<>>]

S_OK == <<"jeong", "sang">>
S_TLS == <<"jeong", "sang", "(", "bo", "an", "ju", "ui", ")">>
S_ERR == <<"o", "ryu">>
S_UNK == <<"hwak", "in", "bul", "ga">>
NEEDS_REVIEW == <<"hwak", "in", "pil", "yo">>

HTTP_SCHEME == <<"h", "t", "t", "p", ":", "/", "/">>
HTTPS_SCHEME == <<"h", "t", "t", "p", "s", ":", "/", "/">>

M_NO_URL == <<"U", "R", "L", " ", "eops", "eum">>
M_NO_SCHEME ==
  <<"h", "t", "t", "p", "/", "h", "t", "t", "p", "s", "ro", " ",
    "si", "jak", "ha", "ji", " ", "anh", "eum">>
M_HTTP == <<"H", "T", "T", "P", " ">>
M_VERIFY_FALSE == <<"v", "e", "r", "i", "f", "y", "=", "F", "a", "l", "s", "e">>
M_SSL_FAIL == <<"S", "S", "L", " ", "geom", "jeung", " ", "sil", "pae">>
M_TLS_OK ==
  M_SSL_FAIL \o <<"(", "bo", "an", "ju", "ui", ")", ":", " ">> \o M_VERIFY_FALSE
    \o <<"ro", "neun", " ", "jeop", "sok", "doem">>
M_TLS_HANDSHAKE ==
  <<"S", "S", "L", " ", "haen", "deu", "sye", "i", "keu", " ", "sil", "pae", "(">>
    \o M_VERIFY_FALSE \o <<"do", " ", "sil", "pae", ")", " ", "-", " ">>
\* A memo with nothing in it.
M_BLANK == <<>>

M_TIMEOUT == <<"T", "i", "m", "e", "o", "u", "t">>
M_CONN ==
  <<"C", "o", "n", "n", "e", "c", "t", "i", "o", "n", " ", "e", "r", "r", "o", "r">>
M_INVALID == <<"I", "n", "v", "a", "l", "i", "d", " ", "U", "R", "L">>
M_SCHEMA ==
  <<"U", "R", "L", " ", "seu", "ki", "ma", " ", "nu", "rak", "(",
    "h", "t", "t", "p", "/", "h", "t", "t", "p", "s", ")">>
M_EXC == <<"ye", "oe", ":", " ">>

(***************************************************************************)
(* The network: what requests.get answers                                  *)
(***************************************************************************)
\* A response: its status code and r.url, the URL after the redirects.
Resp(code, url) == [kind |-> "resp", code |-> code, url |-> url]

\* A raised exception: type(e).__name__, its classes, str(e).
Exc(name, isa, msg) == [kind |-> "exc", name |-> name, isa |-> isa, msg |-> msg]

N_SSL == <<"S", "S", "L", "E", "r", "r", "o", "r">>
N_CTO == <<"C", "o", "n", "n", "e", "c", "t", "T", "i", "m", "e", "o", "u", "t">>
N_RTO == <<"R", "e", "a", "d", "T", "i", "m", "e", "o", "u", "t">>
N_CONN == <<"C", "o", "n", "n", "e", "c", "t", "i", "o", "n", "E", "r", "r", "o", "r">>
N_INV == <<"I", "n", "v", "a", "l", "i", "d", "U", "R", "L">>
N_SCHEMA == <<"M", "i", "s", "s", "i", "n", "g", "S", "c", "h", "e", "m", "a">>
N_REDIR ==
  <<"T", "o", "o", "M", "a", "n", "y", "R", "e", "d", "i", "r", "e", "c", "t", "s">>

E_SSL(msg) == Exc(N_SSL, {"SSLError", "ConnectionError", "Exception"}, msg)
E_CTO(msg) == Exc(N_CTO, {"ConnectTimeout", "ConnectionError", "Timeout", "Exception"}, msg)
E_RTO(msg) == Exc(N_RTO, {"ReadTimeout", "Timeout", "Exception"}, msg)
E_CONN(msg) == Exc(N_CONN, {"ConnectionError", "Exception"}, msg)
E_INV(msg) == Exc(N_INV, {"InvalidURL", "Exception"}, msg)
E_SCHEMA(msg) == Exc(N_SCHEMA, {"MissingSchema", "Exception"}, msg)
E_REDIR(msg) == Exc(N_REDIR, {"TooManyRedirects", "Exception"}, msg)

\* The first except clause, in the order written, that catches e; "" if none.
RECURSIVE Caught(_, _)
Caught(e, clauses) ==
  IF clauses = <<>> THEN ""
  ELSE IF Head(clauses) \in e.isa THEN Head(clauses)
  ELSE Caught(e, Tail(clauses))

(***************************************************************************)
(* check_url_status                                                        *)
(***************************************************************************)
\* A success test that takes 300 too.
IsSuccessBoundaryOff(code) == 200 <= code /\ code <= 300

\* 200 <= status_code < 300
IsSuccess(code) == 200 <= code /\ code < 300

\* The named except clauses alone, the closing except Exception left out.
ProbeExceptClausesNoCatchAll ==
  <<"SSLError", "Timeout", "ConnectionError", "InvalidURL", "MissingSchema">>

\* The clauses with ConnectionError put first: it catches its subclass SSLError.
ProbeExceptClausesConnFirst ==
  <<"ConnectionError", "SSLError", "Timeout", "InvalidURL", "MissingSchema",
    "Exception">>

\* The except clauses of the first probe, in the order written.
ProbeExceptClauses ==
  <<"SSLError", "Timeout", "ConnectionError", "InvalidURL", "MissingSchema",
    "Exception">>

\* The except clause of the verify=False retry.
RetryExceptClauses == <<"Exception">>

\* A returned dict; reqs lists the requests.get calls issued, exc is the name
\* of an exception that left the function (<<>>: it returned).
UrlResult(status, code, final, memo, reqs) ==
  [exc |-> <<>>, URL_status |-> status, URL_status_code |-> code,
   URL_final_URL |-> final, URL_memo |-> memo, reqs |-> reqs]

UrlRaised(e, reqs) ==
  [exc |-> e.name, URL_status |-> <<>>, URL_status_code |-> <<>>,
   URL_final_URL |-> <<>>, URL_memo |-> <<>>, reqs |-> reqs]

Request(url, verify) == [url |-> url, verify |-> verify]

\* The try block of the retry: requests.get(..., verify=False) answered r2.
RetryProbe(u, r2, reqs) ==
  IF r2.kind = "resp" THEN
    IF IsSuccess(r2.code)
    THEN UrlResult(S_TLS, Str(r2.code), r2.url, M_TLS_OK, reqs)
    ELSE UrlResult(S_ERR, Str(r2.code), r2.url,
                   M_SSL_FAIL \o <<" ", "+", " ">> \o M_HTTP \o Str(r2.code)
                     \o <<"(">> \o M_VERIFY_FALSE \o <<")">>, reqs)
  ELSE IF Caught(r2, RetryExceptClauses) = "Exception"
  THEN UrlResult(S_UNK, <<>>, <<>>,
                 M_TLS_HANDSHAKE \o r2.name \o <<":", " ">> \o Take(r2.msg, 120), reqs)
  ELSE UrlRaised(r2, reqs)

\* url: a Python value; net.first, net.retry: what the first request and the
\* verify=False request answer.
check_url_status(url, net) ==
  IF url.t # "str" \/ Strip(url.v) = <<>>
  THEN UrlResult(S_ERR, <<>>, <<>>, M_NO_URL, <<>>)
  ELSE
    LET u == Strip(url.v) IN
    IF ~(StartsWith(u, HTTP_SCHEME) \/ StartsWith(u, HTTPS_SCHEME))
    THEN UrlResult(S_ERR, <<>>, <<>>, M_NO_SCHEME, <<>>)
    ELSE
      LET r == net.first
          reqs1 == <<Request(u, TRUE)>>
          clause == Caught(r, ProbeExceptClauses)
      IN
      IF r.kind = "resp" THEN
        IF IsSuccess(r.code)
        THEN UrlResult(S_OK, Str(r.code), r.url, <<>>, reqs1)
        ELSE UrlResult(S_ERR, Str(r.code), r.url, M_HTTP \o Str(r.code), reqs1)
      ELSE IF clause = "SSLError"
      THEN RetryProbe(u, net.retry, reqs1 \o <<Request(u, FALSE)>>)
      ELSE IF clause = "Timeout" THEN UrlResult(S_UNK, <<>>, <<>>, M_TIMEOUT, reqs1)
      ELSE IF clause = "ConnectionError" THEN UrlResult(S_UNK, <<>>, <<>>, M_CONN, reqs1)
      ELSE IF clause = "InvalidURL" THEN UrlResult(S_ERR, <<>>, <<>>, M_INVALID, reqs1)
      ELSE IF clause = "MissingSchema" THEN UrlResult(S_ERR, <<>>, <<>>, M_SCHEMA, reqs1)
      ELSE IF clause = "Exception"
      THEN UrlResult(S_UNK, <<>>, <<>>, M_EXC \o r.name, reqs1)
      ELSE UrlRaised(r, reqs1)

(***************************************************************************)
(* detect_file_ext, fetch_page_meta                                        *)
(***************************************************************************)
DOC_EXTS ==
  << <<".", "p", "d", "f">>, <<".", "d", "o", "c">>, <<".", "d", "o", "c", "x">>,
     <<".", "x", "l", "s">>, <<".", "x", "l", "s", "x">>, <<".", "p", "p", "t">>,
     <<".", "p", "p", "t", "x">>, <<".", "t", "x", "t">>, <<".", "c", "s", "v">>,
     <<".", "r", "t", "f">> >>

\* The first extension of DOC_EXTS, in its order, found in the lowered URL.
RECURSIVE FirstExtIn(_, _)
FirstExtIn(lower, exts) ==
  IF exts = <<>> THEN <<>>
  ELSE IF Contains(lower, Head(exts)) THEN Head(exts)
  ELSE FirstExtIn(lower, Tail(exts))

\* The extension the URL ends with, if any: nothing may follow it.
detect_file_ext_suffix(url) ==
  LET Ends(k) ==
        /\ Len(url.v) >= Len(DOC_EXTS[k])
        /\ SubSeq(Lower(url.v), Len(url.v) - Len(DOC_EXTS[k]) + 1, Len(url.v)) = DOC_EXTS[k]
  IN IF url.t # "str" \/ ~(\E k \in 1..Len(DOC_EXTS) : Ends(k)) THEN <<>>
     ELSE DOC_EXTS[CHOOSE k \in 1..Len(DOC_EXTS) : Ends(k) /\ \A j \in 1..(k - 1) : ~Ends(j)]

detect_file_ext(url) ==
  IF url.t # "str" THEN <<>> ELSE FirstExtIn(Lower(url.v), DOC_EXTS)

\* What the metadata GET answers: the status code and what BeautifulSoup
\* finds in the body (soup.title.string, the og:title and the description
\* meta contents; <<>> when the element is absent).
MetaResp(code, title, og, desc) ==
  [kind |-> "resp", code |-> code, title |-> title, og |-> og, desc |-> desc]

MetaResult(title, og, desc, reqs) ==
  [exc |-> <<>>, page_title |-> title, page_og_title |-> og,
   page_description |-> desc, reqs |-> reqs]

MetaRaised(e, reqs) ==
  [exc |-> e.name, page_title |-> <<>>, page_og_title |-> <<>>,
   page_description |-> <<>>, reqs |-> reqs]

\* A try with no except clause.
MetaExceptClausesNone == <<>>

\* except Exception
MetaExceptClauses == <<"Exception">>

fetch_page_meta(url, m) ==
  IF url.t # "str" \/ Strip(url.v) = <<>> THEN MetaResult(<<>>, <<>>, <<>>, <<>>)
  ELSE
    LET u == Strip(url.v) IN
    IF ~(StartsWith(u, HTTP_SCHEME) \/ StartsWith(u, HTTPS_SCHEME))
    THEN MetaResult(<<>>, <<>>, <<>>, <<>>)
    ELSE IF detect_file_ext(PyStr(u)) # <<>> THEN MetaResult(<<>>, <<>>, <<>>, <<>>)
    ELSE
      LET reqs1 == <<Request(u, TRUE)>> IN
      IF m.kind = "resp" THEN
        IF ~IsSuccess(m.code) THEN MetaResult(<<>>, <<>>, <<>>, reqs1)
        ELSE MetaResult(Take(Strip(m.title), 200), Take(Strip(m.og), 200),
                        Take(Strip(m.desc), 300), reqs1)
      ELSE IF Caught(m, MetaExceptClauses) = "Exception"
      THEN MetaResult(<<>>, <<>>, <<>>, reqs1)
      ELSE MetaRaised(m, reqs1)

(***************************************************************************)
(* separator, check_format                                                 *)
(***************************************************************************)
KW_HTTP == <<"h", "t", "t", "p">>
KW_DATE == <<"geom", "saek", "il">>

\* The last position of the whitespace run that follows position i (i: none).
RECURSIVE WsEnd(_, _)
WsEnd(s, i) == IF i < Len(s) /\ IsSpace(s[i + 1]) THEN WsEnd(s, i + 1) ELSE i

\* ,\s+(?=kw) matched at position i: the last position of the match, 0 if none.
SplitMatchEnd(s, i, kw) ==
  IF i <= Len(s) /\ s[i] = "," /\ WsEnd(s, i) > i /\ StartsAt(s, WsEnd(s, i) + 1, kw)
  THEN WsEnd(s, i)
  ELSE 0

\* The first position >= from where ,\s+(?=kw) matches; 0 if none.
RECURSIVE SplitNext(_, _, _)
SplitNext(s, from, kw) ==
  IF from > Len(s) THEN 0
  ELSE IF SplitMatchEnd(s, from, kw) > 0 THEN from
  ELSE SplitNext(s, from + 1, kw)

\* re.split(r",\s+(?=kw)", s): its first two pieces; n is 1 when there is
\* no match (one piece only).
ReSplit2(s, kw) ==
  LET i1 == SplitNext(s, 1, kw) IN
  IF i1 = 0 THEN [n |-> 1, p0 |-> s, p1 |-> <<>>]
  ELSE
    LET j1 == SplitMatchEnd(s, i1, kw)
        i2 == SplitNext(s, j1 + 1, kw)
    IN [n |-> 2, p0 |-> SubSeq(s, 1, i1 - 1),
        p1 |-> SubSeq(s, j1 + 1, IF i2 = 0 THEN Len(s) ELSE i2 - 1)]

\* The positions of glyph c in s.
Positions(s, c) == {i \in 1..Len(s) : s[i] = c}

SetMax(S) == CHOOSE x \in S : \A y \in S : y <= x
SetMin(S) == CHOOSE x \in S : \A y \in S : x <= y

\* re.match(r"(.+?),\s*?ldq(.*)rdq", d) with group 1 of length k: the comma at
\* k+1, whitespace, the opening quote, and a closing quote somewhere after it.
DocMatchAt(d, k) ==
  /\ k + 1 <= Len(d)
  /\ d[k + 1] = ","
  /\ WsEnd(d, k + 1) + 1 <= Len(d)
  /\ d[WsEnd(d, k + 1) + 1] = "ldq"
  /\ \E r \in Positions(d, "rdq") : r > WsEnd(d, k + 1) + 1

\* separator(entry): the four parts.
separator(entry) ==
  LET pattern_http == IF Contains(entry, KW_HTTP) THEN KW_HTTP ELSE KW_DATE
      parts_http == ReSplit2(entry, pattern_http)
      doc_info == parts_http.p0
      ref_info == IF parts_http.n > 1 THEN parts_http.p1 ELSE <<>>
      ks == {k \in 1..Len(doc_info) : DocMatchAt(doc_info, k)}
      doc_parts ==
        IF "ldq" \in Range(doc_info) /\ "rdq" \in Range(doc_info) /\ ks # {}
        THEN
          LET k == SetMin(ks)                         \* (.+?) is lazy
              q == WsEnd(doc_info, k + 1) + 1         \* the opening quote
              r == SetMax(Positions(doc_info, "rdq")) \* (.*) is greedy
          IN <<Strip(SubSeq(doc_info, 1, k)),
               <<"ldq">> \o SubSeq(doc_info, q + 1, r - 1) \o <<"rdq">> >>
        ELSE <<Strip(doc_info), <<>> >>
      ref_parts ==
        IF Contains(ref_info, KW_HTTP)
        THEN
          LET parts_ref == ReSplit2(ref_info, KW_DATE) IN
          <<Strip(parts_ref.p0), IF parts_ref.n > 1 THEN Strip(parts_ref.p1) ELSE <<>> >>
        ELSE << <<>>, Strip(ref_info) >>
  IN doc_parts \o ref_parts

\* check_format(text): a pair of straight quotes, or a curly pair.
check_format(text) ==
  \/ Cardinality(Positions(text, "dq")) >= 2
  \/ \E i \in Positions(text, "ldq") : \E j \in Positions(text, "rdq") : i < j

(***************************************************************************)
(* The retrieval date of process_entries                                   *)
(***************************************************************************)
LABEL == <<"geom", "saek", "il", ":", " ">>

IsWordAt(s, i) == i >= 1 /\ i <= Len(s) /\ IsWordChar(s[i])

\* \b before position i (i in 1..Len(s)+1)
WordBoundary(s, i) == IsWordAt(s, i - 1) # IsWordAt(s, i)

DigitAt(s, i, ds) == i >= 1 /\ i <= Len(s) /\ s[i] \in ds

D19 == {"1", "2", "3", "4", "5", "6", "7", "8", "9"}
D09 == D19 \cup {"0"}

\* A month of any one digit, or of 1 and any digit: where it can end.
MonthEndsLoose(s, p) ==
  (IF DigitAt(s, p, D09) THEN {p} ELSE {}) \cup
  (IF DigitAt(s, p, {"1"}) /\ DigitAt(s, p + 1, D09) THEN {p + 1} ELSE {})

\* ([1-9]|1[0-2]) matched from position p: the positions where it can end.
MonthEnds(s, p) ==
  (IF DigitAt(s, p, D19) THEN {p} ELSE {}) \cup
  (IF DigitAt(s, p, {"1"}) /\ DigitAt(s, p + 1, {"0", "1", "2"}) THEN {p + 1} ELSE {})

\* ([1-9]|[12][0-9]|3[01]) matched from position p: where it can end.
DayEnds(s, p) ==
  (IF DigitAt(s, p, D19) THEN {p} ELSE {}) \cup
  (IF DigitAt(s, p, {"1", "2"}) /\ DigitAt(s, p + 1, D09) THEN {p + 1} ELSE {}) \cup
  (IF DigitAt(s, p, {"3"}) /\ DigitAt(s, p + 1, {"0", "1"}) THEN {p + 1} ELSE {})

\* \b\d{4}\.(month)\.(day)\b matched at position i.
DateMatchAt(s, i) ==
  /\ WordBoundary(s, i)
  /\ \A k \in 0..3 : DigitAt(s, i + k, D09)
  /\ DigitAt(s, i + 4, {"."})
  /\ \E m \in MonthEnds(s, i + 5) :
       /\ DigitAt(s, m + 1, {"."})
       /\ \E e \in DayEnds(s, m + 2) : WordBoundary(s, e + 1)

\* re.search(pattern, s)
DateSearch(s) == \E i \in 1..Len(s) : DateMatchAt(s, i)

\* search_date from s[3]
SearchDate(s3) ==
  LET d == Strip(Remove(s3, LABEL)) IN
  IF ~DateSearch(d) THEN NEEDS_REVIEW ELSE d

(***************************************************************************)
(* process_entries                                                         *)
(***************************************************************************)
F_FILE == <<"pa", "il">>
F_WEB == <<"wep">>

\* The item kept as it is, empty or not.
SentinelKept(item) == item

\* "확인필요" if item in ("NA", "", None) else item
Sentinel(item) == IF item \in {<<"N", "A">>, <<>>} THEN NEEDS_REVIEW ELSE item

\* The keys of one article, in the order the dict is written.
PE_COLUMNS ==
  <<"URL_status", "URL_memo", "URL_status_code", "URL_fixed", "file_flag", "file_ext",
    "page_title", "page_og_title", "page_description", "author", "title",
    "URL_report", "search_date", "original", "format_check_rule",
    "URL_content_match_GPT", "format_check_GPT">>

\* x or y, on str
Or(x, y) == IF x # <<>> THEN x ELSE y

\* for entry in entries: the entry of pass i, taken one place early.
LoopEntryShifted(entries, i) == entries[IF i > 1 THEN i - 1 ELSE i]

\* for entry in entries: the entry of pass i.
LoopEntry(entries, i) == entries[i]

\* articles.append({...}): the article of an entry, from the parts s, the
\* probe result and the metadata; or the exception that leaves the loop.
\* reqs lists the requests issued.
Article(entry, s, url_result, file_ext, meta) ==
  IF url_result.exc # <<>>
  THEN [exc |-> url_result.exc, rec |-> <<>>, reqs |-> url_result.reqs]
  ELSE IF meta.exc # <<>>
  THEN [exc |-> meta.exc, rec |-> <<>>, reqs |-> url_result.reqs \o meta.reqs]
  ELSE
    [exc |-> <<>>,
     reqs |-> url_result.reqs \o meta.reqs,
     rec |->
       [URL_status |-> url_result.URL_status,
        URL_memo |-> url_result.URL_memo,
        URL_status_code |-> url_result.URL_status_code,
        URL_fixed |-> url_result.URL_final_URL,
        file_flag |-> IF file_ext # <<>> THEN F_FILE ELSE F_WEB,
        file_ext |-> file_ext,
        page_title |-> meta.page_title,
        page_og_title |-> meta.page_og_title,
        page_description |-> meta.page_description,
        author |-> s[1],
        title |-> s[2],
        URL_report |-> s[3],
        search_date |-> SearchDate(s[4]),
        original |-> entry,
        format_check_rule |-> IF check_format(entry) THEN <<>> ELSE NEEDS_REVIEW,
        URL_content_match_GPT |-> <<>>,
        format_check_GPT |-> <<>>]]

\* The loop body once the URL has been probed: the extension and the
\* metadata of url_result's final URL, or of the report's URL.
ProbedEntry(entry, net, s, url_result) ==
  Article(entry, s, url_result, detect_file_ext(PyStr(Or(s[3], <<>>))),
          fetch_page_meta(PyStr(Or(url_result.URL_final_URL, s[3])), net.meta))

\* The loop body once the entry has been separated into the four parts s.
SeparatedEntry(entry, net, s) ==
  ProbedEntry(entry, net, s, check_url_status(PyStr(s[3]), net))

\* s = ["needs review" if item in ("NA", "", None) else item for item in s]
Sentinels(parts) == [k \in 1..4 |-> Sentinel(parts[k])]

\* The body of the loop for one entry.
ProcessEntry(entry, net) == SeparatedEntry(entry, net, Sentinels(separator(entry)))

RECURSIVE ProcessLoop(_, _, _, _)

\* The end of pass i, whose body gave r: the exception leaves the loop, the
\* article is appended and the loop goes on.
LoopStep(entries, nets, i, articles, r) ==
  IF r.exc # <<>> THEN [exc |-> r.exc, articles |-> articles]
  ELSE ProcessLoop(entries, nets, i + 1, Append(articles, r.rec))

\* The for loop from pass i on, articles so far appended.
ProcessLoop(entries, nets, i, articles) ==
  IF i > Len(entries) THEN [exc |-> <<>>, articles |-> articles]
  ELSE LoopStep(entries, nets, i, articles, ProcessEntry(LoopEntry(entries, i), nets[i]))

\* pd.DataFrame(articles): the columns are the keys of the articles.
DataFrame(articles) ==
  [t |-> "DataFrame",
   columns |-> IF articles = <<>> THEN <<>> ELSE PE_COLUMNS,
   rows |-> articles]

\* return df, after a loop that ended as r; or the exception that left it.
ReturnFrame(r) == [exc |-> r.exc, df |-> DataFrame(r.articles)]

\* process_entries(entries), nets[i] being what the network answers for entry i.
process_entries(entries, nets) == ReturnFrame(ProcessLoop(entries, nets, 1, <<>>))

(***************************************************************************)
(* The oracle clients: GPTcheck, crawling_for_gpt, gpt_url_match_single    *)
(***************************************************************************)
\* What client.chat.completions.create answers a format request: the message
\* content (json: whether json.loads accepts it as an object; key: whether it
\* holds the error-flag key; val: that key's value) or a raised exception.
FormatReply(json, key, val) == [kind |-> "reply", json |-> json, key |-> key, val |-> val]

\* What it answers a content-match request: the message content.
MatchReply(content) == [kind |-> "reply", content |-> content]

N_RATE == <<"R", "a", "t", "e", "L", "i", "m", "i", "t", "E", "r", "r", "o", "r">>
N_API ==
  <<"A", "P", "I", "C", "o", "n", "n", "e", "c", "t", "i", "o", "n", "E", "r", "r", "o", "r">>
N_JSON ==
  <<"J", "S", "O", "N", "D", "e", "c", "o", "d", "e", "E", "r", "r", "o", "r">>

E_RATE == Exc(N_RATE, {"RateLimitError", "Exception"}, <<>>)
E_API == Exc(N_API, {"APIConnectionError", "Exception"}, <<>>)
E_JSON == Exc(N_JSON, {"JSONDecodeError", "Exception"}, <<>>)

GPTCHECK == <<"G", "P", "T", "c", "h", "e", "c", "k">>
V_X == <<"X">>
V_O_REASON == <<"O", "(", "i", "yu", ")">>
V_KEY_MISSING == <<"O", "(", "o", "ryu", "yeo", "bu", " ", "nu", "rak", ")">>
V_KEY_ABSENT == <<"O", "(", "o", "ryu", "yeo", "bu", " ", "eops", "eum", ")">>
V_NONE == <<"O", "(">> \o GPTCHECK \o <<" ", "N", "o", "n", "e", ")">>
V_FAILED(name) ==
  <<"O", "(">> \o GPTCHECK \o <<" ", "sil", "pae", ":">> \o name \o <<")">>

\* while retries < 5
FormatRetryCap == 5

\* while retries < 3
MatchRetryCap == 3

MAX_LEN == 20000

\* The rate-limit clause alone, the closing except Exception left out.
OracleExceptClausesRateOnly == <<"RateLimitError">>

\* The except clauses of both retry loops, in the order written.
OracleExceptClauses == <<"RateLimitError", "Exception">>

\* GPTcheck's return value: a dict, or None when the loop is left.
FormatDict(err, doc) == [t |-> "dict", err |-> err, doc |-> doc]
FormatNone == [t |-> "NoneType", err |-> <<>>, doc |-> <<>>]

\* One pass of GPTcheck's loop body, the oracle answering o:
\* "return" with ret, "retry" after the sleep, or "raise".
GPTcheckAttempt(doc, o) ==
  LET e == IF o.kind = "reply" THEN E_JSON ELSE o
      clause == Caught(e, OracleExceptClauses)
  IN
  IF o.kind = "reply" /\ o.json
  THEN [next |-> "return", exc |-> <<>>,
        ret |-> FormatDict(Or(IF o.key THEN o.val ELSE <<>>, V_KEY_MISSING), doc)]
  ELSE IF clause = "RateLimitError"
  THEN [next |-> "retry", exc |-> <<>>, ret |-> FormatNone]
  ELSE IF clause = "Exception"
  THEN [next |-> "return", exc |-> <<>>, ret |-> FormatDict(V_FAILED(e.name), doc)]
  ELSE [next |-> "raise", exc |-> e.name, ret |-> FormatNone]

\* The statement after GPTcheck's while loop: there is none, so the function
\* ends and Python returns None.
GPTcheckAfterLoop(doc) == FormatNone

\* GPTcheck(doc) with the oracle answering oracle[1], oracle[2], ... in turn:
\* ret, the number of oracle calls and of sleeps, exc if an exception left it.
RECURSIVE GPTcheckLoop(_, _, _)
GPTcheckLoop(doc, oracle, retries) ==
  IF ~(retries < FormatRetryCap)
  THEN [exc |-> <<>>, ret |-> GPTcheckAfterLoop(doc), calls |-> retries,
        sleeps |-> retries]
  ELSE
    LET a == GPTcheckAttempt(doc, oracle[retries + 1]) IN
    IF a.next = "retry" THEN GPTcheckLoop(doc, oracle, retries + 1)
    ELSE [exc |-> a.exc, ret |-> a.ret, calls |-> retries + 1, sleeps |-> retries]

GPTcheck(doc, oracle) == GPTcheckLoop(doc, oracle, 0)

MATCH_TOKEN == <<"il", "chi">>
MISMATCH_TOKEN == <<"bul", "il", "chi">>
R_MATCH == <<"il", "chi", "(", "yu", "hyo", ")">>
R_MISMATCH == <<"bul", "il", "chi", "(", "o", "ryu", ")">>
R_FILE == <<"pa", "il", "(", "nae", "yong", "hwak", "in", "bul", "ga", ")">>

\* What the page GET of crawling_for_gpt answers: the status code and
\* soup.get_text(" ", strip=True), or a raised exception.
PageResp(code, text) == [kind |-> "resp", code |-> code, text |-> text]

\* crawling_for_gpt(url): the page text or one of the two markers.
crawling_for_gpt(url, fetch) ==
  IF url.t # "str" \/ ~(StartsWith(url.v, HTTP_SCHEME) \/ StartsWith(url.v, HTTPS_SCHEME))
  THEN [page |-> S_UNK, reqs |-> <<>>]
  ELSE IF detect_file_ext(url) # <<>> THEN [page |-> R_FILE, reqs |-> <<>>]
  ELSE
    LET reqs1 == <<Request(url.v, TRUE)>> IN
    IF fetch.kind = "resp" THEN
      IF ~IsSuccess(fetch.code) THEN [page |-> S_UNK, reqs |-> reqs1]
      ELSE [page |-> Take(fetch.text, MAX_LEN), reqs |-> reqs1]
    ELSE [page |-> S_UNK, reqs |-> reqs1]

\* The three returns that follow a reply, in the order written.
MatchClassify(out) ==
  IF Contains(out, MATCH_TOKEN) THEN R_MATCH
  ELSE IF Contains(out, MISMATCH_TOKEN) THEN R_MISMATCH
  ELSE Take(out, 50)

\* One pass of the loop body of gpt_url_match_single.
MatchAttempt(o) ==
  IF o.kind = "reply"
  THEN [next |-> "return", ret |-> MatchClassify(Strip(o.content))]
  ELSE IF Caught(o, OracleExceptClauses) = "RateLimitError"
  THEN [next |-> "retry", ret |-> <<>>]
  ELSE [next |-> "return", ret |-> S_UNK]

RECURSIVE MatchLoop(_, _)
MatchLoop(oracle, retries) ==
  IF ~(retries < MatchRetryCap)
  THEN [ret |-> S_UNK, calls |-> retries, sleeps |-> retries]
  ELSE
    LET a == MatchAttempt(oracle[retries + 1]) IN
    IF a.next = "retry" THEN MatchLoop(oracle, retries + 1)
    ELSE [ret |-> a.ret, calls |-> retries + 1, sleeps |-> retries]

\* gpt_url_match_single(info, url): the verdict, the oracle calls made and the
\* requests issued.
gpt_url_match_single(info, url, fetch, oracle) ==
  LET c == crawling_for_gpt(url, fetch) IN
  IF c.page \in {S_UNK, R_FILE}
  THEN [ret |-> c.page, calls |-> 0, sleeps |-> 0, reqs |-> c.reqs]
  ELSE
    LET m == MatchLoop(oracle, 0) IN
    [ret |-> m.ret, calls |-> m.calls, sleeps |-> m.sleeps, reqs |-> c.reqs]

(***************************************************************************)
(* DataFrame operations used by main()                                     *)
(***************************************************************************)
FINAL_COL_ORDER ==
  <<"final_URL_status", "final_URL_memo", "URL_fixed", "author", "title",
    "URL_report", "search_date", "original", "format_check_rule",
    "format_check_GPT", "URL_content_match_GPT", "page_title", "page_og_title",
    "page_description", "file_flag", "file_ext", "URL_status", "URL_memo",
    "URL_status_code", "URL_manual_result", "manual_memo">>

DfNone == [t |-> "NoneType", columns |-> <<>>, rows |-> <<>>]

HasColumn(df, c) == c \in Range(df.columns)

\* df[c] = vals (one value per row): a new column goes last.
SetColumn(df, c, vals) ==
  [df EXCEPT
     !.columns = IF HasColumn(df, c) THEN @ ELSE Append(@, c),
     !.rows = [i \in 1..Len(df.rows) |->
                 [k \in DOMAIN df.rows[i] \cup {c} |->
                    IF k = c THEN vals[i] ELSE df.rows[i][k]]]]

\* df[c] = scalar
SetColumnScalar(df, c, v) == SetColumn(df, c, [i \in 1..Len(df.rows) |-> v])

\* df.loc[idx, c] = v
SetCell(df, idx, c, v) == [df EXCEPT !.rows[idx][c] = v]

\* df[c] as a list
Column(df, c) == [i \in 1..Len(df.rows) |-> df.rows[i][c]]

reorder_columns(df, order) ==
  LET InDf(c) == c \in Range(df.columns)
      front == SelectSeq(order, InDf)
      NotFront(c) == c \notin Range(front)
      tail == SelectSeq(df.columns, NotFront)
  IN [df EXCEPT !.columns = front \o tail]

\* for c in FINAL_COL_ORDER: if c not in df.columns: df[c] = ""
\* The missing columns go last, in the order of FINAL_COL_ORDER, empty in
\* every row.
EnsureFrom(df, cols) ==
  LET Missing(c) == ~HasColumn(df, c) IN
  [df EXCEPT
     !.columns = @ \o SelectSeq(cols, Missing),
     !.rows = [i \in 1..Len(df.rows) |->
                 [k \in DOMAIN df.rows[i] \cup Range(cols) |->
                    IF k \in DOMAIN df.rows[i] THEN df.rows[i][k] ELSE <<>>]]]

ensure_required_columns(df) ==
  IF df.t = "NoneType" THEN df ELSE EnsureFrom(df, FINAL_COL_ORDER)

(***************************************************************************)
(* main(): the run handler                                                 *)
(***************************************************************************)
\* r.get(...) if isinstance(r, dict) else "O(GPTcheck None)"
FormatNote(r) == IF r.t = "dict" THEN r.err ELSE V_NONE

\* The list comprehension over gpt_list.
FormatNotes(gpt_list) == [i \in 1..Len(gpt_list) |-> FormatNote(gpt_list[i].ret)]

\* df[dst] = df[src]
CopyColumn(df, dst, src) == SetColumn(df, dst, Column(df, src))

\* The four assignments that prepare the manual and final columns.
PrepareReviewColumns(df) ==
  CopyColumn(
    CopyColumn(
      SetColumnScalar(SetColumnScalar(df, "URL_manual_result", <<>>), "manual_memo", <<>>),
      "final_URL_status", "URL_status"),
    "final_URL_memo", "URL_memo")

\* What is known of a call of process_entries by one run: that it was made,
\* its argument, what it returned (r) and the list of GPTcheck results.
NoPe == [called |-> FALSE, entries |-> <<>>, exc |-> <<>>, df |-> DfNone,
         do_gpt_format |-> FALSE, gpt_list |-> <<>>]

PeRecord(inp, r, gpt_list) ==
  [called |-> TRUE, entries |-> inp.entries, exc |-> r.exc, df |-> r.df,
   do_gpt_format |-> inp.do_gpt_format, gpt_list |-> gpt_list]

\* How a run ends: "stopped" (st.stop() after the warning), "raised" (an
\* exception ended the script run) or "stored" (df went into the session).
RunEnd(outcome, df, rec) == [outcome |-> outcome, df |-> df, pe |-> rec]

\* The manual and final columns, the required columns, the column order and
\* the store; df1 is the frame after the optional format check.
StoreStage(inp, r, gpt_list, df1) ==
  IF ~HasColumn(df1, "URL_status")      \* KeyError: the frame has no rows
  THEN RunEnd("raised", DfNone, PeRecord(inp, r, gpt_list))
  ELSE RunEnd("stored",
              reorder_columns(ensure_required_columns(PrepareReviewColumns(df1)),
                              FINAL_COL_ORDER),
              PeRecord(inp, r, gpt_list))

\* The optional format check once gpt_list is built.
FormatStage(inp, r, gpt_list) ==
  IF \E i \in 1..Len(gpt_list) : gpt_list[i].exc # <<>>
  THEN RunEnd("raised", DfNone, PeRecord(inp, r, gpt_list))
  ELSE StoreStage(inp, r, gpt_list,
                  IF inp.do_gpt_format
                  THEN SetColumn(r.df, "format_check_GPT", FormatNotes(gpt_list))
                  ELSE r.df)

\* The run once process_entries has returned r.
ProcessedStage(inp, r) ==
  IF r.exc # <<>> THEN RunEnd("raised", DfNone, PeRecord(inp, r, <<>>))
  ELSE FormatStage(inp, r,
                   IF inp.do_gpt_format
                   THEN [i \in 1..Len(inp.entries) |->
                           GPTcheck(inp.entries[i], inp.oracles[i])]
                   ELSE <<>>)

\* The run handler on one click.  inp.uploaded: a file was uploaded;
\* inp.entries: data.strip().splitlines(); inp.do_gpt_format: the checkbox;
\* inp.nets[i], inp.oracles[i]: what the network and the oracle answer for
\* entry i.
RunHandler(inp) ==
  IF ~(inp.uploaded \/ inp.entries # <<>>) THEN RunEnd("stopped", DfNone, NoPe)
  ELSE ProcessedStage(inp, process_entries(inp.entries, inp.nets))

(***************************************************************************)
(* main(): the manual override and the re-verification handlers            *)
(***************************************************************************)
\* A mask that takes every row.
IssueRowsAll(df) == {i \in 1..Len(df.rows) : TRUE}

\* issue_mask: the rows whose raw status is one of the two issue statuses.
IssueRows(df) == {i \in 1..Len(df.rows) : df.rows[i]["URL_status"] \in {S_ERR, S_UNK}}

\* The options of the manual-result select box.
ManualOptions == {<<>>, S_OK, S_TLS, S_ERR, S_UNK}

\* series.astype(str).str.strip().ne("")
NonEmpty(v) == Strip(v) # <<>>

\* result_df.loc[mask, final] = result_df.loc[mask, manual], mask being the
\* rows whose manual cell is non-empty: the other rows keep what they hold.
DeriveColumn(df, final, manual) ==
  SetColumn(df, final,
            [i \in 1..Len(df.rows) |->
               IF NonEmpty(df.rows[i][manual]) THEN df.rows[i][manual]
               ELSE df.rows[i][final]])

\* The manual values derived into the raw columns.
DeriveFinalRaw(df) ==
  DeriveColumn(DeriveColumn(df, "URL_status", "URL_manual_result"),
               "URL_memo", "manual_memo")

\* has_manual and has_manual_memo: the two final columns.
DeriveFinal(df) ==
  DeriveColumn(DeriveColumn(df, "final_URL_status", "URL_manual_result"),
               "final_URL_memo", "manual_memo")

\* result_df.loc[edited.index, c] = edited.get(c, "") for the two manual columns.
WriteEdited(df, edited) ==
  [df EXCEPT !.rows = [i \in 1..Len(df.rows) |->
     IF i \in DOMAIN edited
     THEN [df.rows[i] EXCEPT !["URL_manual_result"] = edited[i]["URL_manual_result"],
                             !["manual_memo"] = edited[i]["manual_memo"]]
     ELSE df.rows[i]]]

\* The handler of the apply button: edited is the editor's table, one row per
\* issue row, keyed by the row index.
ApplyHandler(df, edited) ==
  reorder_columns(DeriveFinal(WriteEdited(df, edited)), FINAL_COL_ORDER)

\* The rows the re-verification loop visits, every row taken.
SelectedIdxAll(df, checked) == {i \in 1..Len(df.rows) : TRUE}

\* selected_idx: the indices whose check box is set.
SelectedIdx(df, checked) == {i \in 1..Len(df.rows) : checked[i]}

\* One pass of the loop over selected_idx: the verdict written for row idx.
\* Each pass reads only cells of its own row that no pass writes.
ReverifyRow(df, idx, env) ==
  LET info == df.rows[idx]["title"] \o <<" ", "+", " ">> \o df.rows[idx]["author"]
      url == Or(df.rows[idx]["URL_fixed"], df.rows[idx]["URL_report"])
  IN gpt_url_match_single(info, PyStr(url), env.fetch, env.oracle)

\* The loop over selected_idx: result_df.loc[idx, column] = verdict.
ReverifyLoop(df, sel, envs) ==
  [df EXCEPT !.rows = [i \in 1..Len(df.rows) |->
     IF i \in sel
     THEN [df.rows[i] EXCEPT !["URL_content_match_GPT"] = ReverifyRow(df, i, envs[i]).ret]
     ELSE df.rows[i]]]

\* The re-verify button once selected_idx is known: the warning when it is
\* empty (stored is FALSE), else the loop and the store.  called: the rows
\* gpt_url_match_single was called for.
ReverifySelected(df, selected_idx, envs) ==
  IF selected_idx = {}
  THEN [stored |-> FALSE, df |-> df, called |-> {}]
  ELSE [stored |-> TRUE,
        df |-> reorder_columns(ReverifyLoop(df, selected_idx, envs), FINAL_COL_ORDER),
        called |-> selected_idx]

\* The handler of the re-verify button; checked[i]: the check box of row i.
ReverifyHandler(df, checked, envs) ==
  ReverifySelected(df, SelectedIdx(df, checked), envs)

(***************************************************************************)
(* Bounds and input sets                                                   *)
(***************************************************************************)
\* The longest exception text drawn: one glyph more than the 120 kept.
MaxMsgLen == 121

\* The most rate-limit signals the oracle sends before its final answer.
MaxRateLimits == 6

U_A == HTTP_SCHEME \o <<"a">>
U_B == HTTPS_SCHEME \o <<"b", "/", "r">>
U_PDF == HTTP_SCHEME \o <<"a", "/", "f", ".", "P", "D", "F", "?", "v">>
U_FTP == <<"f", "t", "p", ":", "/", "/", "a">>

UrlInputs ==
  {PyNone, PyStr(<<>>), PyStr(<<" ", " ">>), PyStr(NEEDS_REVIEW), PyStr(U_FTP),
   PyStr(<<"h", "t", "t", "p">>), PyStr(U_A), PyStr(<<" ">> \o U_B \o <<" ">>),
   PyStr(U_PDF)}

StatusCodes == {200, 204, 299, 300, 404, 503}

Responses == {Resp(c, u) : c \in StatusCodes, u \in {U_A, U_B}}

Exceptions(msgs) ==
  UNION {{E_SSL(m), E_CTO(m), E_RTO(m), E_CONN(m), E_INV(m), E_SCHEMA(m), E_REDIR(m)} :
         m \in msgs}

ShortMsg == <<"m", "s", "g">>

FirstOutcomes == Responses \cup Exceptions({ShortMsg})

RetryOutcomes == Responses \cup Exceptions({ShortMsg, Repeat("x", MaxMsgLen)})

NetEnvs == [first : FirstOutcomes, retry : RetryOutcomes]

\* The oracle's answers to one call's attempts: k rate-limit signals, then
\* final on every later attempt.
OracleSeq(k, final) == [i \in 1..(MaxRateLimits + 1) |-> IF i <= k THEN E_RATE ELSE final]

FormatFinals ==
  {E_API, FormatReply(FALSE, FALSE, <<>>), FormatReply(TRUE, FALSE, <<>>),
   FormatReply(TRUE, TRUE, <<>>), FormatReply(TRUE, TRUE, V_X),
   FormatReply(TRUE, TRUE, V_O_REASON)}

T_UNSURE == <<"mo", "reum">>
T_PAGE == <<"p", "a", "g", "e">>

MatchFinals ==
  {E_API, MatchReply(<<>>), MatchReply(R_MATCH), MatchReply(R_MISMATCH),
   MatchReply(<<" ">> \o MATCH_TOKEN \o <<" ">>), MatchReply(MISMATCH_TOKEN),
   MatchReply(T_UNSURE), MatchReply(Repeat("z", 51))}

PageFetches == {PageResp(200, T_PAGE), PageResp(200, S_UNK), PageResp(404, T_PAGE), E_CONN(ShortMsg)}

D_DOC == <<"d", "o", "c">>

\* Retrieval markers: prefix, year . month . day, suffix; and markers with no date.
DatePrefixes == {<<>>, LABEL, <<"geom", "saek", "il", ":">>, <<"v">>, <<"v", " ">>}
DateYears == {<<"2", "0", "2", "3">>, <<"0", "2", "3">>, <<"1", "2", "0", "2", "3">>}
DateMonths ==
  {<<"0">>, <<"1">>, <<"9">>, <<"1", "0">>, <<"1", "2">>, <<"1", "3">>, <<"0", "5">>}
DateDays ==
  {<<"0">>, <<"1">>, <<"9">>, <<"1", "0">>, <<"2", "9">>, <<"3", "0">>, <<"3", "1">>,
   <<"3", "2">>, <<"0", "5">>}
DateSuffixes == {<<>>, <<".">>, <<"x">>, <<" ", "x">>, <<" ">>}

\* A day no month has after February's last, and a date of the calendar.
DATE_FEB30 == <<"2", "0", "2", "3", ".", "2", ".", "3", "0">>
DATE_NOV5 == <<"2", "0", "2", "3", ".", "1", "1", ".", "5">>

Markers ==
  {p \o y \o <<".">> \o m \o <<".">> \o d \o x :
     p \in DatePrefixes, y \in DateYears, m \in DateMonths, d \in DateDays,
     x \in DateSuffixes}
  \cup {NEEDS_REVIEW, LABEL, LABEL \o <<"a", ".", "b", ".", "c">>,
        <<"2", "0", "2", "3", ".", "5">>, <<"2", "0", "2", "3", "-", "5", "-", "1">>,
        LABEL \o DATE_FEB30, LABEL \o DATE_NOV5}

(***************************************************************************)
(* Calls of the functions under study                                      *)
(***************************************************************************)
NoRet == [exc |-> <<>>]

IdleCall == [fn |-> "none", pc |-> "idle", args |-> <<>>, ret |-> NoRet]

NoLast ==
  [op |-> "none", selected |-> {}, called |-> {}, stored |-> FALSE, over |-> FALSE]

SessionIdle ==
  /\ result_df = DfNone
  /\ pe = NoPe
  /\ run_df = DfNone
  /\ last = NoLast

Pending(fn, args) == [fn |-> fn, pc |-> "call", args |-> args, ret |-> NoRet]

Return(ret) ==
  /\ call' = [call EXCEPT !.pc = "returned", !.ret = ret]
  /\ UNCHANGED <<result_df, pe, run_df, last>>

CallCheckUrlStatus ==
  /\ call.pc = "call" /\ call.fn = "check_url_status"
  /\ Return(check_url_status(call.args.url, call.args.net))

CallSearchDate ==
  /\ call.pc = "call" /\ call.fn = "search_date"
  /\ Return([exc |-> <<>>, search_date |-> SearchDate(call.args.s3)])

CallGPTcheck ==
  /\ call.pc = "call" /\ call.fn = "GPTcheck"
  /\ Return(GPTcheck(call.args.doc, OracleSeq(call.args.k, call.args.final)))

CallGptUrlMatchSingle ==
  /\ call.pc = "call" /\ call.fn = "gpt_url_match_single"
  /\ Return(gpt_url_match_single(call.args.info, call.args.url, call.args.fetch,
                                 OracleSeq(call.args.k, call.args.final)))

\* One call of check_url_status on any input, the network answering anything.
InitUrl ==
  /\ call \in {Pending("check_url_status", a) : a \in [url : UrlInputs, net : NetEnvs]}
  /\ SessionIdle

SpecUrl == InitUrl /\ [][CallCheckUrlStatus]_vars

\* The retrieval-date step of process_entries on any marker.
InitDate ==
  /\ call \in {Pending("search_date", [s3 |-> m]) : m \in Markers}
  /\ SessionIdle

SpecDate == InitDate /\ [][CallSearchDate]_vars

\* The URLs of a content check: a page, a document, no http(s) scheme, a
\* document with no http(s) scheme, no string.
U_FTP_PDF == U_FTP \o <<"/", "f", ".", "p", "d", "f">>
MatchUrls == {PyStr(U_A), PyStr(U_PDF), PyStr(U_FTP), PyStr(U_FTP_PDF), PyNone}

\* One call of GPTcheck or of gpt_url_match_single, the oracle answering anything.
InitJudge ==
  /\ call \in
       {Pending("GPTcheck", a) :
          a \in [doc : {D_DOC}, k : 0..MaxRateLimits, final : FormatFinals]}
       \cup
       {Pending("gpt_url_match_single", a) :
          a \in [info : {D_DOC}, url : MatchUrls,
                 fetch : PageFetches, k : 0..MaxRateLimits, final : MatchFinals]}
  /\ SessionIdle

NextJudge == CallGPTcheck \/ CallGptUrlMatchSingle

SpecJudge == InitJudge /\ [][NextJudge]_vars

(***************************************************************************)
(* The run button: batches of entries                                      *)
(***************************************************************************)
\* The most entries of a batch.
MaxEntries == 3

U_C == HTTP_SCHEME \o <<"c">>
DATE_OK == <<"2", "0", "2", "3", ".", "1", ".", "1">>
DATE_BAD == <<"2", "0", "2", "3", ".", "1", "3", ".", "1">>
SEP == <<",", " ">>

\* One line of the input: author, quoted title, URL, retrieval marker.
Entry(author, url, date) ==
  author \o SEP \o <<"ldq", "T", "rdq">> \o SEP \o url \o SEP \o LABEL \o date

EN_WEB == Entry(<<"K">>, U_A, DATE_OK)
EN_TLS == Entry(<<"L">>, U_B, DATE_OK \o <<".">>)
EN_PDF == Entry(<<"M">>, U_PDF, DATE_BAD)
EN_SLOW == <<"N">> \o SEP \o U_C \o SEP \o LABEL \o DATE_OK
EN_NOURL == <<"P">> \o SEP \o LABEL \o DATE_OK
EN_JUNK == <<"j", "u", "n", "k", ",">>
EN_BLANK == <<>>

P_TITLE == <<" ", "t", "i", " ">>

\* An entry and what the network answers while it is processed.
Scenario(entry, first, retry, meta) ==
  [entry |-> entry, net |-> [first |-> first, retry |-> retry, meta |-> meta]]

Scenarios ==
  {Scenario(EN_WEB, Resp(200, U_A), Resp(200, U_A), MetaResp(200, P_TITLE, <<"o">>, <<>>)),
   Scenario(EN_TLS, E_SSL(ShortMsg), Resp(204, U_B), E_REDIR(ShortMsg)),
   Scenario(EN_PDF, Resp(404, U_PDF), Resp(404, U_PDF), MetaResp(404, <<>>, <<>>, <<>>)),
   Scenario(EN_SLOW, E_RTO(ShortMsg), E_RTO(ShortMsg), E_CTO(ShortMsg)),
   Scenario(EN_NOURL, E_CONN(ShortMsg), E_CONN(ShortMsg), E_CONN(ShortMsg)),
   Scenario(EN_JUNK, E_REDIR(ShortMsg), E_REDIR(ShortMsg), E_REDIR(ShortMsg)),
   Scenario(EN_BLANK, E_CONN(ShortMsg), E_CONN(ShortMsg), E_CONN(ShortMsg))}

\* data.strip().splitlines(): the first and the last line are not blank.
Batches ==
  UNION {{b \in [1..n -> Scenarios] :
            n > 0 => (Strip(b[1].entry) # <<>> /\ Strip(b[n].entry) # <<>>)} :
         n \in 0..MaxEntries}

\* What the oracle answers the format request of one entry.
FormatOracles ==
  <<OracleSeq(0, FormatReply(TRUE, TRUE, V_X)),
    OracleSeq(MaxRateLimits, FormatReply(TRUE, TRUE, V_X)),
    OracleSeq(1, E_API),
    OracleSeq(2, FormatReply(TRUE, TRUE, V_O_REASON))>>

\* The oracles of the rows of a batch: the four in turn, from any of them on.
OracleRows(n, shift) == [i \in 1..n |-> FormatOracles[((i + shift) % 4) + 1]]

RunInput(uploaded, b, do_gpt_format, shift) ==
  [uploaded |-> uploaded,
   entries |-> [i \in 1..Len(b) |-> b[i].entry],
   do_gpt_format |-> do_gpt_format,
   nets |-> [i \in 1..Len(b) |-> b[i].net],
   oracles |-> OracleRows(Len(b), shift)]

BatchInputs ==
  {RunInput(Len(b) > 0, b, FALSE, 0) : b \in Batches}
  \cup {RunInput(Len(b) > 0, b, TRUE, k) : b \in Batches, k \in 0..3}
  \cup {RunInput(TRUE, <<>>, g, 0) : g \in BOOLEAN}

\* The table holds review work: a manual verdict, a manual memo or a
\* content-match verdict in some row.
HasReviewWork(df) ==
  \E i \in 1..Len(df.rows) :
    \/ df.rows[i]["URL_manual_result"] # <<>>
    \/ df.rows[i]["manual_memo"] # <<>>
    \/ df.rows[i]["URL_content_match_GPT"] # <<>>

\* Row i of new with the review cells of row i of old.
ReviewKept(new, old, i) ==
  [new.rows[i] EXCEPT !["URL_manual_result"] = old.rows[i]["URL_manual_result"],
                      !["manual_memo"] = old.rows[i]["manual_memo"],
                      !["final_URL_status"] = old.rows[i]["final_URL_status"],
                      !["final_URL_memo"] = old.rows[i]["final_URL_memo"],
                      !["URL_content_match_GPT"] = old.rows[i]["URL_content_match_GPT"]]

\* A store that carries the review cells of the table in the session over
\* to the new table when both have as many rows.
StoreRunKeepingReview(r) ==
  /\ result_df' =
       IF r.outcome # "stored" THEN result_df
       ELSE IF Len(result_df.rows) # Len(r.df.rows) THEN r.df
       ELSE [r.df EXCEPT !.rows = [i \in 1..Len(r.df.rows) |-> ReviewKept(r.df, result_df, i)]]
  /\ run_df' = IF r.outcome = "stored" THEN r.df ELSE run_df
  /\ pe' = IF r.pe.called THEN r.pe ELSE pe
  /\ last' = [op |-> "run", selected |-> {}, called |-> {}, stored |-> r.outcome = "stored",
              over |-> HasReviewWork(result_df)]

\* The end r of a script run started by the run button: the result is stored
\* in the session, or the run ended early and the session keeps what it held.
\* over: the session held review work when the button was clicked.
StoreRun(r) ==
  /\ result_df' = IF r.outcome = "stored" THEN r.df ELSE result_df
  /\ run_df' = IF r.outcome = "stored" THEN r.df ELSE run_df
  /\ pe' = IF r.pe.called THEN r.pe ELSE pe
  /\ last' = [op |-> "run", selected |-> {}, called |-> {}, stored |-> r.outcome = "stored",
              over |-> HasReviewWork(result_df)]

\* The run button clicked once in a fresh session, on any batch.
RunBatch ==
  /\ last.op = "none"
  /\ \E inp \in BatchInputs : StoreRun(RunHandler(inp))
  /\ UNCHANGED call

InitRun ==
  /\ call = IdleCall
  /\ SessionIdle

SpecRun == InitRun /\ [][RunBatch]_vars

(***************************************************************************)
(* The session: run, manual override, re-verification, reset               *)
(***************************************************************************)
\* The most rows of a result the buttons below the table are used on.
MaxRows == 2

\* Entries whose rows need no review (a page that answers, a page that
\* answers once the certificate is not validated) and rows that do (a file
\* that is gone, a host that times out).
UiScenarios ==
  {Scenario(EN_WEB, Resp(200, U_A), Resp(200, U_A), MetaResp(200, P_TITLE, <<"o">>, <<>>)),
   Scenario(EN_TLS, E_SSL(ShortMsg), Resp(204, U_B), E_REDIR(ShortMsg)),
   Scenario(EN_PDF, Resp(404, U_PDF), Resp(404, U_PDF), MetaResp(404, <<>>, <<>>, <<>>)),
   Scenario(EN_SLOW, E_RTO(ShortMsg), E_RTO(ShortMsg), E_CTO(ShortMsg))}

\* The batches run in the session: the format check is on, or off for a
\* batch of one entry.
UiInputs ==
  {RunInput(FALSE, b, TRUE, 0) : b \in UNION {[1..n -> UiScenarios] : n \in 1..MaxRows}}
  \cup {RunInput(FALSE, b, FALSE, 0) : b \in [1..1 -> UiScenarios]}

\* How the run handler ends on each of them.
UiRuns == {RunHandler(inp) : inp \in UiInputs}

\* What the user leaves in the two manual cells of a row of the editor:
\* nothing, a verdict, a memo, a verdict and a blank memo.
EditChoices ==
  {[URL_manual_result |-> <<>>, manual_memo |-> <<>>],
   [URL_manual_result |-> S_OK, manual_memo |-> <<>>],
   [URL_manual_result |-> <<>>, manual_memo |-> <<"m">>],
   [URL_manual_result |-> S_UNK, manual_memo |-> <<" ">>]}

\* The editor's table: one row per issue row, keyed by the row index.
Edits(df) == [IssueRows(df) -> EditChoices]

\* What the page fetch and the oracle answer while a row is re-verified.
ReverifyEnvs ==
  {[fetch |-> PageResp(200, T_PAGE), oracle |-> OracleSeq(1, MatchReply(R_MATCH))],
   [fetch |-> PageResp(200, T_PAGE), oracle |-> OracleSeq(0, MatchReply(T_UNSURE))]}

\* One click of the run button.
Run ==
  /\ \E r \in UiRuns : StoreRun(r)
  /\ UNCHANGED call

\* One click of the apply button, shown when the result has issue rows.
ApplyManual ==
  /\ result_df # DfNone
  /\ IssueRows(result_df) # {}
  /\ \E edited \in Edits(result_df) : result_df' = ApplyHandler(result_df, edited)
  /\ last' = [op |-> "apply", selected |-> {}, called |-> {}, stored |-> TRUE,
              over |-> FALSE]
  /\ UNCHANGED <<call, pe, run_df>>

\* The end r of the re-verify handler, the check boxes being checked.
StoreReverify(checked, r) ==
  /\ result_df' = IF r.stored THEN r.df ELSE result_df
  /\ last' = [op |-> "reverify",
              selected |-> {i \in DOMAIN checked : checked[i]},
              called |-> r.called, stored |-> r.stored, over |-> FALSE]
  /\ UNCHANGED <<call, pe, run_df>>

\* One click of the re-verify button, shown below any result.
Reverify ==
  /\ result_df # DfNone
  /\ \E checked \in [1..Len(result_df.rows) -> BOOLEAN], env \in ReverifyEnvs :
       StoreReverify(checked,
                     ReverifyHandler(result_df, checked,
                                     [i \in 1..Len(result_df.rows) |-> env]))

\* One click of the reset button.
Reset ==
  /\ result_df' = DfNone
  /\ run_df' = DfNone
  /\ last' = [op |-> "reset", selected |-> {}, called |-> {}, stored |-> FALSE,
              over |-> FALSE]
  /\ UNCHANGED <<call, pe>>

Init ==
  /\ call = IdleCall
  /\ SessionIdle

Next == Run \/ ApplyManual \/ Reverify \/ Reset

Spec == Init /\ [][Next]_vars

(***************************************************************************)
(* Properties of check_url_status (SpecUrl)                               *)
(***************************************************************************)
UrlReturned == call.fn = "check_url_status" /\ call.pc = "returned"

FourStatuses == {S_OK, S_TLS, S_ERR, S_UNK}

\* C1: for every input and every outcome of the network probe (first probe
\* or TLS retry), check_url_status returns - no exception leaves it - a
\* result whose URL status is one of the four statuses.
C1_StatusIsOneOfFour ==
  UrlReturned =>
    /\ call.ret.exc = <<>>
    /\ call.ret.URL_status \in FourStatuses

\* The TLS retry itself failed with an exception no specific clause names.
C1_Witness ==
  /\ UrlReturned
  /\ call.ret.reqs # <<>>
  /\ call.args.net.first.kind = "exc" /\ "SSLError" \in call.args.net.first.isa
  /\ call.args.net.retry.kind = "exc" /\ call.args.net.retry.name = N_REDIR
  /\ call.ret.URL_status = S_UNK

\* The first probe was made and failed with a TLS/certificate error.
FirstProbeTlsFailed ==
  /\ call.ret.reqs # <<>>
  /\ call.args.net.first.kind = "exc"
  /\ "SSLError" \in call.args.net.first.isa

\* The retry answered with a status code in 200-299.
RetryAnswered2xx ==
  /\ call.args.net.retry.kind = "resp"
  /\ call.args.net.retry.code \in 200..299

\* C2: the status is the TLS-warning status if and only if the first probe
\* failed with a TLS error and the single retry, made with certificate
\* validation off, answered 200-299; such a URL is neither normal nor error,
\* and a URL whose first probe got a response never has the warning status.
C2_TlsWarningIff ==
  UrlReturned =>
    /\ (call.ret.URL_status = S_TLS) <=> (FirstProbeTlsFailed /\ RetryAnswered2xx)
    /\ (call.ret.URL_status = S_TLS) =>
         /\ Len(call.ret.reqs) = 2
         /\ call.ret.reqs[1].verify /\ ~call.ret.reqs[2].verify

C2_Witness ==
  /\ UrlReturned
  /\ FirstProbeTlsFailed /\ RetryAnswered2xx
  /\ call.ret.URL_status = S_TLS

(***************************************************************************)
(* Properties of the oracle clients (SpecJudge)                           *)
(***************************************************************************)
FormatReturned == call.fn = "GPTcheck" /\ call.pc = "returned"
MatchReturned == call.fn = "gpt_url_match_single" /\ call.pc = "returned"

\* 'no issue' (X) or 'issue(reason)' (O(...))
IsFormatOutcome(v) ==
  \/ v = V_X
  \/ StartsWith(v, <<"O", "(">>) /\ v[Len(v)] = ")"

\* C3: under every sequence of oracle answers GPTcheck makes at most 5 oracle
\* calls and gpt_url_match_single at most 3, and each returns a classified
\* outcome, never an absent value: GPTcheck a result carrying X or O(reason),
\* gpt_url_match_single a content-match outcome.
C3_RetryCapAndTerminalOutcome ==
  /\ FormatReturned =>
       /\ call.ret.calls <= 5
       /\ call.ret.exc = <<>>
       /\ call.ret.ret.t = "dict"
       /\ IsFormatOutcome(call.ret.ret.err)
  /\ MatchReturned =>
       /\ call.ret.calls <= 3
       /\ \/ call.ret.ret \in {R_MATCH, R_MISMATCH, S_UNK, R_FILE}
          \/ /\ call.ret.calls = call.args.k + 1
             /\ call.args.final.kind = "reply"
             /\ call.ret.ret = Take(Strip(call.args.final.content), 50)

\* The oracle answered the content-match request: the page was fetched and
\* the attempt that got the final answer was within the cap.
MatchOracleAnswered ==
  /\ MatchReturned
  /\ call.ret.calls = call.args.k + 1
  /\ call.args.final.kind = "reply"

\* C4: a reply containing the mismatch token gives the mismatch verdict, a
\* reply containing the match token and not the mismatch token gives the
\* match verdict, a reply containing neither gives the raw text cut to 50
\* glyphs.
C4_ReplyClassifiedByToken ==
  MatchOracleAnswered =>
    LET out == Strip(call.args.final.content) IN
    /\ Contains(out, MISMATCH_TOKEN) => call.ret.ret = R_MISMATCH
    /\ (Contains(out, MATCH_TOKEN) /\ ~Contains(out, MISMATCH_TOKEN)) =>
         call.ret.ret = R_MATCH
    /\ (~Contains(out, MATCH_TOKEN) /\ ~Contains(out, MISMATCH_TOKEN)) =>
         call.ret.ret = Take(out, 50)

(***************************************************************************)
(* Properties of the retrieval date (SpecDate)                            *)
(***************************************************************************)
DateReturned == call.fn = "search_date" /\ call.pc = "returned"

\* The marker with the label removed, trimmed.
Unlabelled == Strip(Remove(call.args.s3, LABEL))

MonthTexts == {Str(k) : k \in 1..12}
DayTexts == {Str(k) : k \in 1..31}

\* t is YYYY.M.D: four digits, a month in 1-12, a day in 1-31.
IsYMD(t) ==
  /\ Len(t) >= 8
  /\ \A k \in 1..4 : IsDigit(t[k])
  /\ t[5] = "."
  /\ \E j \in 7..(Len(t) - 1) :
       /\ t[j] = "."
       /\ SubSeq(t, 6, j - 1) \in MonthTexts
       /\ SubSeq(t, j + 1, Len(t)) \in DayTexts

\* s holds a YYYY.M.D date that no word character touches on either side.
HasDateToken(s) ==
  \E i \in 1..Len(s) : \E j \in i..Len(s) :
    /\ IsYMD(SubSeq(s, i, j))
    /\ ~IsWordAt(s, i - 1)
    /\ ~IsWordAt(s, j + 1)

\* C10 as stated: the date is kept if and only if the unlabelled marker is
\* YYYY.M.D with a month in 1-12 and a day in 1-31; every other marker
\* gives the needs-review sentinel.
C10_AcceptedIffIsDate ==
  DateReturned =>
    call.ret.search_date = (IF IsYMD(Unlabelled) THEN Unlabelled ELSE NEEDS_REVIEW)

\* C10 amended: the unlabelled, trimmed marker is kept whole if and only if
\* it contains a YYYY.M.D date (month 1-12, day 1-31) delimited by word
\* boundaries; text around the date is kept; every other marker gives the
\* needs-review sentinel.
C10_AcceptedIffHasDateToken ==
  DateReturned =>
    call.ret.search_date = (IF HasDateToken(Unlabelled) THEN Unlabelled ELSE NEEDS_REVIEW)

\* A date followed by the full stop of the citation style is kept, stop included.
C10_Witness ==
  /\ DateReturned
  /\ call.args.s3 = LABEL \o <<"2", "0", "2", "3", ".", "1", "2", ".", "3", "1", ".">>
  /\ call.ret.search_date = <<"2", "0", "2", "3", ".", "1", "2", ".", "3", "1", ".">>

(***************************************************************************)
(* Properties of a batch run (SpecRun)                                     *)
(***************************************************************************)
\* The run button has been handled and process_entries was called.
BatchProcessed == last.op = "run" /\ pe.called

\* The note main() writes for a GPTcheck result: the error flag of a dict,
\* the fixed text for anything else.
NoteOf(g) == IF g.ret.t = "dict" THEN g.ret.err ELSE V_NONE

\* C5: for a batch of N entries process_entries returns exactly N records,
\* record i built from entry i (its original text is entry i), whatever the
\* probes answered; when the optional format check ran and the result was
\* stored, row i of the result carries the note of the i-th GPTcheck call.
C5_RecordsInInputOrder ==
  BatchProcessed =>
    /\ pe.exc = <<>>
    /\ Len(pe.df.rows) = Len(pe.entries)
    /\ \A i \in 1..Len(pe.entries) : pe.df.rows[i]["original"] = pe.entries[i]
    /\ (pe.do_gpt_format /\ last.stored) =>
         /\ Len(pe.gpt_list) = Len(pe.entries)
         /\ Len(result_df.rows) = Len(pe.entries)
         /\ \A i \in 1..Len(pe.entries) :
              /\ result_df.rows[i]["original"] = pe.entries[i]
              /\ pe.gpt_list[i].ret.t = "dict" => pe.gpt_list[i].ret.doc = pe.entries[i]
              /\ result_df.rows[i]["format_check_GPT"] = NoteOf(pe.gpt_list[i])

\* A stored batch of three different entries, a probe of the second one
\* having failed, whose three format notes differ.
C5_Witness ==
  /\ BatchProcessed /\ last.stored /\ pe.do_gpt_format
  /\ Len(pe.entries) = 3
  /\ Cardinality({pe.entries[i] : i \in 1..3}) = 3
  /\ result_df.rows[2]["URL_status"] = S_UNK
  /\ Cardinality({result_df.rows[i]["format_check_GPT"] : i \in 1..3}) = 3

\* C6: no failure while one entry is processed ends the batch: whatever the
\* entry (blank, malformed, without URL) and whatever the probe, the metadata
\* fetch and the oracle did (an error status, a timeout, an exception, rate
\* limits to exhaustion), process_entries and every GPTcheck call return, the
\* run stores its result, and every entry has one row whose raw status is one
\* of the four statuses.
C6_NoEntryFailureEndsBatch ==
  (BatchProcessed /\ pe.entries # <<>>) =>
    /\ pe.exc = <<>>
    /\ \A i \in 1..Len(pe.gpt_list) : pe.gpt_list[i].exc = <<>>
    /\ pe.do_gpt_format => Len(pe.gpt_list) = Len(pe.entries)
    /\ last.stored
    /\ Len(result_df.rows) = Len(pe.entries)
    /\ \A i \in 1..Len(pe.entries) : result_df.rows[i]["URL_status"] \in FourStatuses

\* A stored batch whose first entry met a probe time-out and a metadata
\* fetch that raised, whose second entry is blank, and in which one oracle
\* call failed and another one ran out of retries.
C6_Witness ==
  /\ BatchProcessed /\ last.stored /\ pe.do_gpt_format
  /\ Len(pe.entries) = 3
  /\ pe.entries[1] = EN_SLOW /\ result_df.rows[1]["URL_memo"] = M_TIMEOUT
  /\ pe.entries[2] = EN_BLANK
  /\ \E i \in 1..3 : result_df.rows[i]["format_check_GPT"] = V_FAILED(N_API)
  /\ \E i \in 1..3 : pe.gpt_list[i].ret.t = "NoneType"
  /\ \A i \in 1..3 : result_df.rows[i]["URL_status"] \in FourStatuses

(***************************************************************************)
(* Properties of the session (Spec)                                        *)
(***************************************************************************)
GPT_MATCH_COL == "URL_content_match_GPT"

\* The fields process_entries parses from the entry and the fields it gets
\* from probing the URL.
ParsedFields == {"author", "title", "URL_report", "search_date", "original"}
ProbedFields ==
  {"URL_status", "URL_memo", "URL_status_code", "URL_fixed", "page_title",
   "page_og_title", "page_description", "file_flag", "file_ext"}

\* The fields the manual override may write.
ManualFields == {"URL_manual_result", "manual_memo", "final_URL_status", "final_URL_memo"}

\* Between this state and the next the table keeps its columns, its rows and
\* their order, and every cell for which Writable(i, c) is false.
FrameExcept(Writable(_, _)) ==
  /\ result_df'.t = result_df.t
  /\ result_df'.columns = result_df.columns
  /\ Len(result_df'.rows) = Len(result_df.rows)
  /\ \A i \in 1..Len(result_df.rows) :
       /\ DOMAIN result_df'.rows[i] = DOMAIN result_df.rows[i]
       /\ \A c \in DOMAIN result_df.rows[i] :
            ~Writable(i, c) => result_df'.rows[i][c] = result_df.rows[i][c]

ReverifyWritable(i, c) == c = GPT_MATCH_COL /\ i \in last'.selected

\* C7: a click of the re-verify button calls gpt_url_match_single for the
\* selected rows only and writes only the content-match cell of those rows:
\* every other cell of a selected row, every cell of an unselected row, the
\* number of rows and their order are unchanged; with nothing selected
\* nothing is called and the table is unchanged.
C7_ReverifyWritesSelectedMatchCellOnly ==
  [][last'.op = "reverify" =>
       /\ last'.called \subseteq last'.selected
       /\ FrameExcept(ReverifyWritable)
       /\ last'.selected = {} => (last'.called = {} /\ result_df' = result_df)]_vars

\* Row 2 alone was selected in a table of two web rows: it has its verdict,
\* row 1 has none, and the call was made for row 2.
C7_Witness ==
  /\ last.op = "reverify" /\ last.stored
  /\ last.selected = {2} /\ last.called = {2}
  /\ Len(result_df.rows) = 2
  /\ result_df.rows[2][GPT_MATCH_COL] = R_MATCH
  /\ result_df.rows[1][GPT_MATCH_COL] = <<>>
  /\ result_df.rows[1]["file_flag"] = F_WEB

ApplyWritable(i, c) == c \in ManualFields

\* The parsed and the probed fields of every row are those of the table the
\* last run stored.
ParsedAndProbedAsRun ==
  /\ (result_df = DfNone) <=> (run_df = DfNone)
  /\ Len(result_df.rows) = Len(run_df.rows)
  /\ \A i \in 1..Len(result_df.rows) :
       \A c \in ParsedFields \cup ProbedFields : result_df.rows[i][c] = run_df.rows[i][c]

\* C8: a click of the apply button changes only the manual result, the manual
\* memo, the final status and the final memo; and after any sequence of
\* clicks the parsed and the probed fields of every row are what the run
\* produced.
C8_ApplyWritesManualAndFinalOnly ==
  /\ [][last'.op = "apply" => FrameExcept(ApplyWritable)]_vars
  /\ []ParsedAndProbedAsRun

\* A manual verdict and a memo have been applied to a row whose raw status
\* and memo are still those of the run.
C8_Witness ==
  /\ last.op = "apply"
  /\ \E i \in 1..Len(result_df.rows) :
       /\ result_df.rows[i]["URL_status"] = S_ERR
       /\ run_df.rows[i]["URL_status"] = S_ERR
       /\ result_df.rows[i]["URL_manual_result"] = S_OK
       /\ result_df.rows[i]["final_URL_status"] = S_OK
       /\ result_df.rows[i]["URL_memo"] = run_df.rows[i]["URL_memo"]
       /\ result_df.rows[i]["URL_memo"] # <<>>

\* C9: in every table the session holds, the final status of a row is its
\* manual verdict when that is non-empty after trimming and its raw status
\* otherwise, and the final memo is the manual memo when that is non-empty
\* and the raw memo otherwise.
C9_FinalIsManualElseRaw ==
  \A i \in 1..Len(result_df.rows) :
    /\ result_df.rows[i]["final_URL_status"] =
         IF Strip(result_df.rows[i]["URL_manual_result"]) # <<>>
         THEN result_df.rows[i]["URL_manual_result"]
         ELSE result_df.rows[i]["URL_status"]
    /\ result_df.rows[i]["final_URL_memo"] =
         IF Strip(result_df.rows[i]["manual_memo"]) # <<>>
         THEN result_df.rows[i]["manual_memo"]
         ELSE result_df.rows[i]["URL_memo"]

(***************************************************************************)
(* Properties of the retrieval date: the two markers of the examples       *)
(***************************************************************************)
\* C11: the marker "geom saek il: 2023.2.30" gives the needs-review sentinel
\* (February has no day 30), and the marker "geom saek il: 2023.11.5" is
\* accepted and gives the search date 2023.11.5.
C11_Feb30RejectedNov5Kept ==
  DateReturned =>
    /\ call.args.s3 = LABEL \o DATE_FEB30 => call.ret.search_date = NEEDS_REVIEW
    /\ call.args.s3 = LABEL \o DATE_NOV5 => call.ret.search_date = DATE_NOV5

(***************************************************************************)
(* One entry through process_entries                                       *)
(***************************************************************************)
U_REPORT ==
  HTTP_SCHEME \o <<"e", "x", "a", "m", "p", "l", "e", ".", "c", "o", "m", "/",
                   "r", "e", "p", "o", "r", "t">>
A_MOE == <<"hwan", "gyeong", "bu">>
T_REPORT ==
  <<"2", "0", "2", "3", "nyeon", " ", "tan", "so", "jung", "rip", " ",
    "bo", "go", "seo", ",">>
DATE_MAY1 == <<"2", "0", "2", "3", ".", "5", ".", "1">>

\* The entry of the scenario: the title in straight quotation marks, the
\* comma inside the closing mark, then the URL; and the same with curly marks.
EN_REPORT ==
  A_MOE \o SEP \o <<"dq">> \o T_REPORT \o <<"dq", " ">> \o U_REPORT \o SEP
    \o LABEL \o DATE_MAY1
EN_REPORT_CURLY ==
  A_MOE \o SEP \o <<"ldq">> \o T_REPORT \o <<"rdq", " ">> \o U_REPORT \o SEP
    \o LABEL \o DATE_MAY1

\* Entries put together from an author, a title, a URL and a retrieval
\* marker, any of them left out, joined by a comma with or without a blank.
EntryAuthors == {<<>>, <<"K">>, <<" ">>, <<"N", "A">>}
EntryTitles ==
  {<<>>, <<"ldq", "T", "rdq">>, <<"dq", "T", "dq">>, <<"ldq", "T", ",", "rdq">>}
EntryUrls == {<<>>, U_A, U_PDF, U_FTP, KW_HTTP}
EntryMarkers ==
  {<<>>, LABEL \o DATE_OK, DATE_OK, LABEL \o DATE_BAD, KW_DATE,
   LABEL \o DATE_OK \o SEP \o LABEL \o <<"x">>}
EntryJoins == {SEP, <<",">>}

Joined(piece, join) == IF piece = <<>> THEN <<>> ELSE join \o piece

EntryInputs ==
  {a \o Joined(t, j) \o Joined(u, j) \o Joined(m, j) :
     a \in EntryAuthors, t \in EntryTitles, u \in EntryUrls, m \in EntryMarkers,
     j \in EntryJoins}
  \cup {EN_REPORT, EN_REPORT_CURLY, EN_JUNK, EN_BLANK}

\* What the network answers while the entry is processed.
EntryNets ==
  {[first |-> Resp(200, U_REPORT), retry |-> Resp(200, U_REPORT),
    meta |-> MetaResp(200, P_TITLE, <<>>, <<>>)],
   [first |-> Resp(404, U_A), retry |-> Resp(404, U_A),
    meta |-> MetaResp(404, <<>>, <<>>, <<>>)],
   [first |-> E_SSL(ShortMsg), retry |-> Resp(200, U_B), meta |-> E_REDIR(ShortMsg)],
   [first |-> E_RTO(ShortMsg), retry |-> E_RTO(ShortMsg), meta |-> E_CTO(ShortMsg)]}

\* What a call of process_entries on the one entry showed: the frame it
\* returned (r), the parts separator gave, the requests issued meanwhile.
EntryReturn(r, parts, article) ==
  [exc |-> r.exc, df |-> r.df, parts |-> parts, reqs |-> article.reqs]

CallProcessEntries ==
  /\ call.pc = "call" /\ call.fn = "process_entries"
  /\ Return(EntryReturn(process_entries(<<call.args.entry>>, <<call.args.net>>),
                        separator(call.args.entry),
                        ProcessEntry(call.args.entry, call.args.net)))

InitEntry ==
  /\ call \in {Pending("process_entries", a) : a \in [entry : EntryInputs, net : EntryNets]}
  /\ SessionIdle

SpecEntry == InitEntry /\ [][CallProcessEntries]_vars

(***************************************************************************)
(* Properties of one entry's record (SpecEntry)                            *)
(***************************************************************************)
\* process_entries returned the frame of the one entry.
EntryReturned ==
  /\ call.fn = "process_entries" /\ call.pc = "returned"
  /\ call.ret.exc = <<>>
  /\ Len(call.ret.df.rows) = 1

\* The record of the entry.
Rec == call.ret.df.rows[1]

\* C12: for the entry  hwan-gyeong-bu, "2023nyeon tan-so-jung-rip bo-go-seo,"
\* http://example.com/report, geom-saek-il: 2023.5.1  (straight quotation
\* marks, the comma inside the closing mark) whose URL answers 200, the
\* record has the author hwan-gyeong-bu, the quoted span as title, the URL
\* http://example.com/report, the search date 2023.5.1 and the status normal.
C12_ReportEntryParsed ==
  (/\ EntryReturned
   /\ call.args.entry = EN_REPORT
   /\ call.args.net.first = Resp(200, U_REPORT)) =>
    /\ Rec["author"] = A_MOE
    /\ Rec["title"] \in {<<"dq">> \o T_REPORT \o <<"dq">>, T_REPORT,
                         SubSeq(T_REPORT, 1, Len(T_REPORT) - 1)}
    /\ Rec["URL_report"] = U_REPORT
    /\ Rec["search_date"] = DATE_MAY1
    /\ Rec["URL_status"] = S_OK

\* The entry has no "http" in it.
NoHttp(entry) == ~Contains(entry, KW_HTTP)

\* The retrieval part of an entry without "http": what follows the first
\* comma-and-blank that stands before the retrieval-date keyword.
RetrievalPart(entry) ==
  IF SplitNext(entry, 1, KW_DATE) = 0 THEN <<>>
  ELSE SubSeq(entry, SplitMatchEnd(entry, SplitNext(entry, 1, KW_DATE), KW_DATE) + 1,
              Len(entry))

\* C13: for every entry with no "http" in it, separator returns an empty
\* URL part and the whole retrieval part as the retrieval marker, and the
\* record of process_entries has the status error with the memo "URL eops-eum"
\* (no URL), no request having been sent.
C13_NoHttpEntryIsNoUrl ==
  (EntryReturned /\ NoHttp(call.args.entry)) =>
    /\ call.ret.parts[3] = <<>>
    /\ call.ret.parts[4] = Strip(RetrievalPart(call.args.entry))
    /\ Rec["URL_status"] = S_ERR
    /\ Rec["URL_memo"] = M_NO_URL
    /\ call.ret.reqs = <<>>

ParsedSlots == {"author", "title", "URL_report", "search_date"}

\* C18: in every record process_entries produces, whatever the entry (the
\* empty string included), none of the four parsed slots - author, title,
\* report URL, search date - is empty: a slot separator left empty holds the
\* needs-review sentinel.
C18_NoParsedSlotEmpty ==
  EntryReturned =>
    /\ \A c \in ParsedSlots : Rec[c] # <<>>
    /\ \A k \in 1..3 :
         call.ret.parts[k] = <<>> =>
           Rec[<<"author", "title", "URL_report">>[k]] = NEEDS_REVIEW
    /\ call.ret.parts[4] = <<>> => Rec["search_date"] = NEEDS_REVIEW

\* The empty entry: all four slots hold the sentinel.
C18_Witness ==
  /\ EntryReturned
  /\ call.args.entry = <<>>
  /\ \A c \in ParsedSlots : Rec[c] = NEEDS_REVIEW

(***************************************************************************)
(* One call of fetch_page_meta                                             *)
(***************************************************************************)
\* The capital of a letter of the extensions.
UpperGlyph(c) ==
  CASE c = "p" -> "P" [] c = "d" -> "D" [] c = "f" -> "F" [] c = "t" -> "T"
    [] c = "s" -> "S" [] c = "x" -> "X" [] c = "l" -> "L" [] c = "r" -> "R"
    [] c = "c" -> "C" [] c = "o" -> "O" [] c = "v" -> "V"
    [] OTHER -> c

\* An extension as written, in capitals, and with its first letter capital.
ExtSpellings(ext) ==
  {ext, [i \in 1..Len(ext) |-> UpperGlyph(ext[i])],
   [i \in 1..Len(ext) |-> IF i = 2 THEN UpperGlyph(ext[i]) ELSE ext[i]]}

MetaUrlHeads ==
  {HTTP_SCHEME \o <<"a", "/", "f">>, <<" ">> \o HTTPS_SCHEME \o <<"b", "/", "g">>,
   <<"a", "/", "f">>}
MetaUrlTails == {<<>>, <<"?", "v", "=", "1">>, <<"/", "x">>}

\* URLs that name a document, and URLs that do not.
MetaUrls ==
  {PyStr(h \o e \o t) :
     h \in MetaUrlHeads, t \in MetaUrlTails,
     e \in UNION {ExtSpellings(DOC_EXTS[k]) : k \in 1..Len(DOC_EXTS)}}
  \cup {PyNone, PyStr(<<>>), PyStr(U_A), PyStr(U_B), PyStr(U_FTP), PyStr(NEEDS_REVIEW),
        PyStr(HTTP_SCHEME \o <<"a", "/", "p", "d", "f">>),
        PyStr(HTTP_SCHEME \o <<"a", "/", "f", ".", "h", "t", "m", "l">>)}

MetaAnswers ==
  {MetaResp(200, P_TITLE, <<"o">>, <<"d">>), MetaResp(200, <<>>, <<>>, <<>>),
   MetaResp(404, P_TITLE, <<>>, <<>>), E_CONN(ShortMsg), E_RTO(ShortMsg)}

CallFetchPageMeta ==
  /\ call.pc = "call" /\ call.fn = "fetch_page_meta"
  /\ Return(fetch_page_meta(call.args.url, call.args.m))

InitMeta ==
  /\ call \in {Pending("fetch_page_meta", a) : a \in [url : MetaUrls, m : MetaAnswers]}
  /\ SessionIdle

SpecMeta == InitMeta /\ [][CallFetchPageMeta]_vars

(***************************************************************************)
(* Properties of fetch_page_meta (SpecMeta)                                *)
(***************************************************************************)
MetaReturned == call.fn = "fetch_page_meta" /\ call.pc = "returned"

\* The URL is a string that holds, in any case of letters, one of the
\* document extensions.
HasDocExt(url) ==
  /\ url.t = "str"
  /\ \E k \in 1..Len(DOC_EXTS) :
       \E i \in 1..Len(url.v) :
         /\ i + Len(DOC_EXTS[k]) - 1 <= Len(url.v)
         /\ \A j \in 1..Len(DOC_EXTS[k]) :
              url.v[i + j - 1] \in {DOC_EXTS[k][j], UpperGlyph(DOC_EXTS[k][j])}

\* C14: for every URL that holds one of the document extensions (.pdf, .doc,
\* .docx, .xls, .xlsx, .ppt, .pptx, .txt, .csv, .rtf; in any case of letters;
\* a query string may follow), fetch_page_meta returns the three metadata
\* fields empty and sends no request.
C14_DocumentUrlNotFetched ==
  (MetaReturned /\ HasDocExt(call.args.url)) =>
    /\ call.ret.exc = <<>>
    /\ call.ret.page_title = <<>>
    /\ call.ret.page_og_title = <<>>
    /\ call.ret.page_description = <<>>
    /\ call.ret.reqs = <<>>

\* A .PDF URL with a query string, on a host whose page has a title.
C14_Witness ==
  /\ MetaReturned
  /\ call.args.url = PyStr(HTTP_SCHEME \o <<"a", "/", "f", ".", "P", "D", "F", "?", "v", "=", "1">>)
  /\ call.args.m = MetaResp(200, P_TITLE, <<"o">>, <<"d">>)
  /\ call.ret.page_title = <<>>
  /\ call.ret.reqs = <<>>

(***************************************************************************)
(* Properties of the oracle clients: attempts and early returns (SpecJudge)*)
(***************************************************************************)
\* The oracle's final answer is a failure other than a rate limit: an
\* exception of another kind, or content json.loads rejects.
OtherFailure(final) ==
  \/ final.kind = "exc" /\ "RateLimitError" \notin final.isa
  \/ final.kind = "reply" /\ ~final.json

\* type(e).__name__ of that failure.
FailureName(final) == IF final.kind = "exc" THEN final.name ELSE N_JSON

\* C15: in GPTcheck only a rate-limit signal leads to another attempt.  The
\* number of oracle calls is 1 plus the number of rate-limit signals, at most
\* 5, and the number of sleeps is the number of rate-limit signals received;
\* the first failure of another kind (transport error, content that is not
\* JSON) ends the call with no further sleep or oracle call, the result being
\* O(GPTcheck sil-pae:<type name of the failure>).
C15_OnlyRateLimitRetried ==
  FormatReturned =>
    /\ call.ret.calls = Min(call.args.k + 1, 5)
    /\ call.ret.sleeps = Min(call.args.k, 5)
    /\ (call.args.k < 5 /\ OtherFailure(call.args.final)) =>
         /\ call.ret.exc = <<>>
         /\ call.ret.ret = FormatDict(V_FAILED(FailureName(call.args.final)), call.args.doc)

\* Two rate limits, then a transport error: three calls, two sleeps, and the
\* result names the error.
C15_Witness ==
  /\ FormatReturned
  /\ call.args.k = 2 /\ call.args.final = E_API
  /\ call.ret.calls = 3 /\ call.ret.sleeps = 2
  /\ call.ret.ret.err = V_FAILED(N_API)

\* The URL is a string that starts with http:// or https://.
HasScheme(url) ==
  url.t = "str" /\ (StartsWith(url.v, HTTP_SCHEME) \/ StartsWith(url.v, HTTPS_SCHEME))

\* The page request was sent and answered outside 200-299, or raised.
PageFetchFailed ==
  /\ call.ret.reqs # <<>>
  /\ \/ call.args.fetch.kind = "exc"
     \/ call.args.fetch.kind = "resp" /\ call.args.fetch.code \notin 200..299

\* The page request was sent and answered 200-299.
PageRetrieved ==
  /\ Len(call.ret.reqs) = 1
  /\ call.args.fetch.kind = "resp" /\ call.args.fetch.code \in 200..299

\* C16 as stated: the oracle is called only after page text was retrieved; a
\* URL without http(s) scheme, a page request answered outside 200-299 or
\* raising gives hwak-in-bul-ga (unreachable), and a URL of a document type
\* gives pa-il(nae-yong-hwak-in-bul-ga) (file unreadable), each with no
\* oracle call; for a URL of a document type no request is sent either.
C16_NoOracleWithoutPage ==
  MatchReturned =>
    /\ call.ret.calls > 0 => PageRetrieved
    /\ (~HasScheme(call.args.url) \/ PageFetchFailed) =>
         (call.ret.ret = S_UNK /\ call.ret.calls = 0)
    /\ HasDocExt(call.args.url) =>
         (call.ret.ret = R_FILE /\ call.ret.calls = 0 /\ call.ret.reqs = <<>>)

\* C16 amended: the scheme is tested before the document type.  A URL that
\* is no string or has no http(s) scheme gives hwak-in-bul-ga, a document
\* extension in it or not; a URL with the scheme and a document extension
\* gives pa-il(nae-yong-hwak-in-bul-ga); in both cases no request is sent
\* and the oracle is not called.  A page request answered outside 200-299
\* or raising gives hwak-in-bul-ga with no oracle call, and the oracle is
\* called only after the page request was answered 200-299.
C16_NoOracleWithoutPageSchemeFirst ==
  MatchReturned =>
    /\ call.ret.calls > 0 => PageRetrieved
    /\ ~HasScheme(call.args.url) =>
         (call.ret.ret = S_UNK /\ call.ret.calls = 0 /\ call.ret.reqs = <<>>)
    /\ PageFetchFailed => (call.ret.ret = S_UNK /\ call.ret.calls = 0)
    /\ (HasScheme(call.args.url) /\ HasDocExt(call.args.url)) =>
         (call.ret.ret = R_FILE /\ call.ret.calls = 0 /\ call.ret.reqs = <<>>)

\* A document URL with the scheme, on a host that would have answered and an
\* oracle that would have said "match": file unreadable, nothing sent or asked.
C16_Witness ==
  /\ MatchReturned
  /\ call.args.url = PyStr(U_PDF)
  /\ call.args.fetch = PageResp(200, T_PAGE)
  /\ call.args.final = MatchReply(R_MATCH)
  /\ call.ret.ret = R_FILE /\ call.ret.calls = 0 /\ call.ret.reqs = <<>>

(***************************************************************************)
(* The start of the script: the API key                                    *)
(***************************************************************************)
\* A key as a Python truth value, None taken for a key.
TruthyNotNone(v) == v.t # "NoneType"

\* A key as a Python truth value: None and "" are false.
Truthy(v) == v.t = "str" /\ v.v # <<>>

\* st.secrets.get("OPENAI_API_KEY") or os.environ.get("OPENAI_API_KEY")
ApiKey(cfg) == IF Truthy(cfg.secrets) THEN cfg.secrets ELSE cfg.environ

\* What the secrets and the environment hold under the key's name.
KeyValues == {PyNone, PyStr(<<>>), PyStr(<<"s", "k">>)}

\* The configuration of one execution of the program; it stays as it is.
Configured(cfg) == [fn |-> "script", pc |-> "idle", args |-> cfg, ret |-> NoRet]

\* if not api_key: st.error(...); st.stop() - the script run ends there,
\* before main() is defined or called.
Halt ==
  /\ ~Truthy(ApiKey(call.args))
  /\ last' = [op |-> "halted", selected |-> {}, called |-> {}, stored |-> FALSE,
              over |-> FALSE]
  /\ UNCHANGED <<call, result_df, pe, run_df>>

\* The runs of one entry.
KeyRuns == {r \in UiRuns : Len(r.pe.entries) = 1}

\* The script runs past the key test and main() handles the click.
KeyedRun ==
  /\ Truthy(ApiKey(call.args))
  /\ \E r \in KeyRuns : StoreRun(r)
  /\ UNCHANGED call

KeyedApply == Truthy(ApiKey(call.args)) /\ ApplyManual

KeyedReverify == Truthy(ApiKey(call.args)) /\ Reverify

KeyedReset == Truthy(ApiKey(call.args)) /\ Reset

InitKey ==
  /\ call \in {Configured(cfg) : cfg \in [secrets : KeyValues, environ : KeyValues]}
  /\ SessionIdle

NextKey == Halt \/ KeyedRun \/ KeyedApply \/ KeyedReverify \/ KeyedReset

SpecKey == InitKey /\ [][NextKey]_vars

(***************************************************************************)
(* Properties of the key test (SpecKey)                                    *)
(***************************************************************************)
\* Neither the secrets nor the environment hold a key.
NoKeyConfigured ==
  /\ call.args.secrets \in {PyNone, PyStr(<<>>)}
  /\ call.args.environ \in {PyNone, PyStr(<<>>)}

\* C17: when no API key is configured, neither in the secrets nor in the
\* environment, every script run halts before main(): in the whole
\* execution no entry is parsed, no URL probe and no oracle call is made
\* (process_entries, GPTcheck and gpt_url_match_single are never called) and
\* no result is stored.
C17_NoKeyNoProcessing ==
  NoKeyConfigured =>
    /\ last.op \in {"none", "halted"}
    /\ ~pe.called
    /\ pe.gpt_list = <<>>
    /\ last.called = {}
    /\ ~last.stored
    /\ result_df = DfNone
    /\ run_df = DfNone

\* The script ran with no key at all and halted.
C17_Witness ==
  /\ call.args.secrets = PyNone /\ call.args.environ = PyNone
  /\ last.op = "halted"
  /\ result_df = DfNone /\ ~pe.called

(***************************************************************************)
(* Properties of check_url_status: consistency and requests (SpecUrl)      *)
(***************************************************************************)
\* The texts of the status codes in 200-299, and of the other codes.
SuccessCodeTexts == {Str(c) : c \in 200..299}
OtherCodeTexts == {Str(c) : c \in (100..199) \cup (300..599)}

\* C19: every result of check_url_status is consistent.  Status normal: the
\* recorded code is in 200-299, a final URL is recorded, the memo is empty.
\* Status error with a recorded code: the code is outside 200-299 and the
\* memo contains its digits.  Status unknown: the code and the final URL are
\* empty and the memo is Timeout, Connection error, the memo of the double
\* TLS failure, or names the type of the failure.
C19_ResultConsistent ==
  UrlReturned =>
    /\ call.ret.URL_status = S_OK =>
         /\ call.ret.URL_status_code \in SuccessCodeTexts
         /\ call.ret.URL_final_URL # <<>>
         /\ call.ret.URL_memo = <<>>
    /\ (call.ret.URL_status = S_ERR /\ call.ret.URL_status_code # <<>>) =>
         /\ call.ret.URL_status_code \in OtherCodeTexts
         /\ Contains(call.ret.URL_memo, call.ret.URL_status_code)
    /\ call.ret.URL_status = S_UNK =>
         /\ call.ret.URL_status_code = <<>>
         /\ call.ret.URL_final_URL = <<>>
         /\ call.ret.URL_memo # <<>>
         /\ \/ call.ret.URL_memo = M_TIMEOUT
            \/ call.ret.URL_memo = M_CONN
            \/ /\ StartsWith(call.ret.URL_memo, M_TLS_HANDSHAKE)
               /\ Contains(call.ret.URL_memo, call.args.net.retry.name)
            \/ call.ret.URL_memo = M_EXC \o call.args.net.first.name

\* A certificate failure whose retry answers 404: the status is error, the
\* code is recorded and the memo holds it.
C19_Witness ==
  /\ UrlReturned
  /\ FirstProbeTlsFailed
  /\ call.ret.URL_status = S_ERR
  /\ call.ret.URL_status_code = <<"4", "0", "4">>
  /\ Contains(call.ret.URL_memo, <<"4", "0", "4">>)

\* The URL is a string that, trimmed, starts with http:// or https://.
Probeable(url) == HasScheme([t |-> url.t, v |-> Strip(url.v)])

\* C20: one call of check_url_status sends at most two requests: none when
\* the URL is empty, no string or without http(s) scheme; one otherwise,
\* with certificate validation; and exactly one more, with validation off,
\* if and only if the first one failed with a TLS error.  A time-out, a
\* connection failure or a response outside 200-299 never leads to a second
\* request, and a failure of the second request gives the status unknown
\* with no third request.
C20_AtMostTwoRequests ==
  UrlReturned =>
    /\ Len(call.ret.reqs) <= 2
    /\ ~Probeable(call.args.url) => call.ret.reqs = <<>>
    /\ Probeable(call.args.url) =>
         /\ Len(call.ret.reqs) >= 1
         /\ call.ret.reqs[1] = Request(Strip(call.args.url.v), TRUE)
         /\ (Len(call.ret.reqs) = 2) <=>
              (call.args.net.first.kind = "exc" /\ "SSLError" \in call.args.net.first.isa)
         /\ Len(call.ret.reqs) = 2 =>
              /\ call.ret.reqs[2] = Request(Strip(call.args.url.v), FALSE)
              /\ call.args.net.retry.kind = "exc" => call.ret.URL_status = S_UNK

\* The first request met a certificate failure and the second one timed out:
\* two requests, the status unknown.
C20_Witness ==
  /\ UrlReturned
  /\ FirstProbeTlsFailed
  /\ call.args.net.retry.kind = "exc" /\ call.args.net.retry.name = N_RTO
  /\ Len(call.ret.reqs) = 2
  /\ call.ret.URL_status = S_UNK

(***************************************************************************)
(* Properties of the session: who can be overridden, what a run leaves     *)
(***************************************************************************)
\* Row i of the table holds no manual value and its final status and memo
\* are the raw ones.
Unreviewed(df, i) ==
  /\ df.rows[i]["URL_manual_result"] = <<>>
  /\ df.rows[i]["manual_memo"] = <<>>
  /\ df.rows[i]["final_URL_status"] = df.rows[i]["URL_status"]
  /\ df.rows[i]["final_URL_memo"] = df.rows[i]["URL_memo"]

\* C21: only a row whose raw status is error or unknown can get a manual
\* override: after any sequence of runs, applied overrides and
\* re-verifications, every row whose raw status is normal or
\* normal(security warning) has an empty manual result and manual memo, and
\* its final status and final memo are its raw status and raw memo.
C21_OnlyIssueRowsOverridden ==
  \A i \in 1..Len(result_df.rows) :
    result_df.rows[i]["URL_status"] \in {S_OK, S_TLS} => Unreviewed(result_df, i)

\* An override was applied to a table of a normal row and an error row: the
\* error row carries the manual verdict, the normal row is as the run left it.
C21_Witness ==
  /\ last.op = "apply"
  /\ Len(result_df.rows) = 2
  /\ result_df.rows[1]["URL_status"] = S_OK
  /\ Unreviewed(result_df, 1)
  /\ result_df.rows[2]["URL_status"] = S_ERR
  /\ result_df.rows[2]["URL_manual_result"] = S_OK
  /\ result_df.rows[2]["final_URL_status"] = S_OK

\* C22: each run starts from a clean review state whatever was done to the
\* previous result: right after a run has stored its table, every row has an
\* empty manual result and manual memo, a final status and final memo equal
\* to the raw ones, and an empty content-match verdict; and right after the
\* reset no result is stored.
C22_RunStartsClean ==
  /\ (last.op = "run" /\ last.stored) =>
       /\ result_df # DfNone
       /\ \A i \in 1..Len(result_df.rows) :
            /\ Unreviewed(result_df, i)
            /\ result_df.rows[i]["URL_content_match_GPT"] = <<>>
  /\ last.op = "reset" => result_df = DfNone

\* A run that found overrides or verdicts in the session and stored a table
\* with an issue row, of which nothing is reviewed.
C22_Witness ==
  /\ last.op = "run" /\ last.stored /\ last.over
  /\ IssueRows(result_df) # {}
  /\ \A i \in 1..Len(result_df.rows) :
       /\ Unreviewed(result_df, i)
       /\ result_df.rows[i]["URL_content_match_GPT"] = <<>>

====
